---- MODULE Spec2Model ----
(***************************************************************************)
(* A model of VoiceWise's caching layer (CacheService), of the live-call   *)
(* turn handling (CallService, the Bland AI webhook) and of the live-call  *)
(* analysis queue with its background worker (InsightService).             *)
(*                                                                         *)
(* Python values: a str is a sequence of one-character strings, None of an *)
(* Optional[str]/Optional[float] field is the string "None", a float score *)
(* is the string of its decimal form (the model never does arithmetic on   *)
(* scores), and an Optional object is a sequence of length 0 or 1.         *)
(***************************************************************************)
EXTENDS Integers, Sequences, FiniteSets, TLC

VARIABLES
    live_call_cache,    \* CacheService._live_call_cache: call id -> LiveCall (absent = no entry)
    live_call_queue,    \* InsightService._live_call_queue: None or an asyncio.Queue
    tasks,              \* the queue-processor tasks created so far; the last one is _queue_processor_task
    ev,                 \* the handler or worker step that ran last, and what it returned
    n_turns,            \* conversation turns stored so far
    n_enqueued,         \* history: items put on the queue so far
    deq_log,            \* history: the enqueue numbers of the items the worker took, in order
    last_stored,        \* history: per call, the scores of the last analysis stored since its state was created
    completed,          \* history: per call, its live state was invalidated and no turn arrived since
    trend_cache,        \* CacheService._trend_cache: key -> stored value
    dashboard_cache,    \* CacheService._dashboard_cache
    bulk_insights_cache,\* CacheService._bulk_insights_cache
    chart_calls_cache,  \* CacheService._chart_calls_cache
    db,                 \* per call id, the number of insight writes committed for it
    ret,                \* the cache operation that ran last: its arguments, whether it called fetch_func, what it returned
    now,                \* the clock, in seconds
    stored_at,          \* per pool and key, the time at which the entry was stored
    written_at          \* history: the time of the last committed insight write

liveVars == <<live_call_queue, tasks, ev, n_turns, n_enqueued, deq_log,
              last_stored, completed>>

poolVars == <<trend_cache, dashboard_cache, bulk_insights_cache, chart_calls_cache>>

clockVars == <<now, stored_at, written_at>>

cacheVars == <<poolVars, db, ret, clockVars>>

vars == <<live_call_cache, liveVars, cacheVars>>

(***************************************************************************)
(* Bounds of the model.                                                    *)
(***************************************************************************)
MaxTurns == 2

Calls == {"c1", "c2"}

\* The calls that have a row in the calls table ("c2" has none).
DbCalls == {"c1"}

(***************************************************************************)
(* Strings.                                                                *)
(***************************************************************************)
Min(a, b) == IF a <= b THEN a ELSE b

\* str.lower() on one character, for the letters the model's texts use.
LowerChar(ch) ==
    CASE ch = "A" -> "a"
      [] ch = "B" -> "b"
      [] ch = "C" -> "c"
      [] ch = "D" -> "d"
      [] OTHER -> ch

Lower(s) == [i \in 1..Len(s) |-> LowerChar(s[i])]

RECURSIVE LStrip(_)
LStrip(s) == IF s # <<>> /\ Head(s) = " " THEN LStrip(Tail(s)) ELSE s

RECURSIVE RStrip(_)
RStrip(s) ==
    IF s # <<>> /\ s[Len(s)] = " " THEN RStrip(SubSeq(s, 1, Len(s) - 1)) ELSE s

\* str.strip()
Strip(s) == RStrip(LStrip(s))

\* s[:n]
Slice(s, n) == SubSeq(s, 1, Min(n, Len(s)))

\* s.startswith(p)
StartsWith(s, p) == Len(s) >= Len(p) /\ SubSeq(s, 1, Len(p)) = p

\* set(s)
CharSet(s) == {s[i] : i \in 1..Len(s)}

\* n copies of the character ch
Rep(ch, n) == [i \in 1..n |-> ch]

(***************************************************************************)
(* Webhook messages.                                                       *)
(***************************************************************************)
AgentSpeech == <<"A","g","e","n","t"," ","s","p","e","e","c","h",":">>

HandlingUserSpeech ==
    <<"H","a","n","d","l","i","n","g"," ","u","s","e","r"," ","s","p","e","e","c","h",":">>

EndingCall == <<"E","n","d","i","n","g"," ","c","a","l","l",":">>

\* webhooks.py: is_conversation_turn_webhook
is_conversation_turn_webhook(message) ==
    IF message = <<>> THEN FALSE
    ELSE \E prefix \in {AgentSpeech, HandlingUserSpeech, EndingCall} :
            StartsWith(message, prefix)

\* call_service.py: CallService.get_speaker_type
get_speaker_type(message) ==
    IF StartsWith(message, AgentSpeech) \/ StartsWith(message, EndingCall)
    THEN "AGENT" ELSE "USER"

\* call_service.py: CallService.trim_message_prefix.  The prefixes are tried
\* in the order of the list; each ends in a space.
trim_message_prefix(message) ==
    IF message = <<>> THEN <<>>
    ELSE LET p1 == HandlingUserSpeech \o <<" ">>
             p2 == EndingCall \o <<" ">>
             p3 == AgentSpeech \o <<" ">>
         IN  IF StartsWith(message, p1)
               THEN Strip(SubSeq(message, Len(p1) + 1, Len(message)))
             ELSE IF StartsWith(message, p2)
               THEN Strip(SubSeq(message, Len(p2) + 1, Len(message)))
             ELSE IF StartsWith(message, p3)
               THEN Strip(SubSeq(message, Len(p3) + 1, Len(message)))
             ELSE Strip(message)

\* The length of the prefix check_prefix_similarity compares.
PrefixLength == 50

\* The similarity threshold, in percent (threshold: float = 0.7).
ThresholdPercent == 70

\* call_service.py: CallService.check_prefix_similarity.  intersection/union
\* >= 0.7 is decided on the integers: the sets have at most 50 elements.
check_prefix_similarity(text1, text2) ==
    IF text1 = <<>> \/ text2 = <<>> THEN FALSE
    ELSE LET prefix_length == Min(PrefixLength, Min(Len(text1), Len(text2)))
             prefix1 == Strip(Lower(Slice(text1, prefix_length)))
             prefix2 == Strip(Lower(Slice(text2, prefix_length)))
             chars1 == CharSet(prefix1)
             chars2 == CharSet(prefix2)
             intersection == Cardinality(chars1 \cap chars2)
             union == Cardinality(chars1 \cup chars2)
         IN  IF prefix_length = 0 THEN FALSE
             ELSE IF prefix1 = <<>> \/ prefix2 = <<>> THEN FALSE
             ELSE IF union = 0 THEN FALSE
             ELSE 100 * intersection >= ThresholdPercent * union

(***************************************************************************)
(* The texts and payloads the model delivers.                              *)
(***************************************************************************)
TextAbcd == <<"a","b","c","d">>
TextAbcSpaceDe == <<"a","b","c"," ","d","e">>
TextUpper == <<"A","B","C","D">>
TextXyz == <<"x","y","z">>
TextLong1 == Rep("a", PrefixLength) \o <<"b","c","d">>
TextLong2 == Rep("a", PrefixLength) \o <<"x","y","z">>

Texts == {TextAbcd, TextAbcSpaceDe, TextUpper, TextXyz, <<>>, TextLong1, TextLong2}

\* The agent with every text, the user with three of them, the end of the call.
TurnMessages ==
    {AgentSpeech \o <<" ">> \o t : t \in Texts}
        \cup {HandlingUserSpeech \o <<" ">> \o t : t \in {TextAbcd, TextXyz, <<>>}}
        \cup {EndingCall \o <<" ">> \o TextXyz}

\* The turns delivered while the worker runs: a user turn, the same text in
\* upper case, a blank user turn and an agent turn.
LiveTurnMessages ==
    {HandlingUserSpeech \o <<" ">> \o TextAbcd,
     HandlingUserSpeech \o <<" ">> \o TextUpper,
     HandlingUserSpeech \o <<" ">>,
     AgentSpeech \o <<" ">> \o TextAbcd}

\* Messages that are no conversation turn: an absent message and a status text.
OtherMessages == {<<>>, <<"o","k">>}

\* Conversation-turn payloads; such a payload may carry completed = true.
TurnPayloads(messages) ==
    [call_id : Calls,
     message : messages,
     completed : BOOLEAN,
     status : {"in-progress"},
     concatenated_transcript : {"None"}]

\* Payloads without a turn message: progress reports and completions.
StatusPayloads ==
    [call_id : Calls,
     message : OtherMessages,
     completed : {FALSE},
     status : {"in-progress"},
     concatenated_transcript : {"None"}]
    \cup
    [call_id : Calls,
     message : {<<>>},
     completed : {TRUE},
     status : {"completed", "failed"},
     concatenated_transcript : {"None", "transcript"}]

(***************************************************************************)
(* Live-call state (schemas LiveCall and ConversationTurn, as              *)
(* CallService builds them).                                               *)
(***************************************************************************)
ConversationTurn(speaker_type, speech) ==
    [speaker_type |-> speaker_type, speech |-> speech]

\* call_service.py:946-952: the LiveCall of a first turn; every score is None.
NewLiveCall(call_id, turn) ==
    [call_id |-> call_id,
     conversation |-> <<turn>>,
     sentiment |-> "None",
     churn_score |-> "None",
     revenue_interest_score |-> "None",
     confidence |-> "None",
     call_initiated_timestamp |-> "timestamp",
     phone_number |-> IF call_id \in DbCalls THEN "phone" ELSE "unknown"]

\* cache_service.py: CacheService.get_live_call returns None for an absent key.
HasLiveCall(cache, call_id) == call_id \in DOMAIN cache

\* cache_service.py: CacheService.set_live_call
set_live_call(cache, call_id, live_call) ==
    [k \in DOMAIN cache \cup {call_id} |->
        IF k = call_id THEN live_call ELSE cache[k]]

\* cache_service.py: CacheService.invalidate_live_call_cache
invalidate_live_call_cache(cache, call_id) ==
    [k \in DOMAIN cache \ {call_id} |-> cache[k]]

(***************************************************************************)
(* The queue and its processor task (InsightService class attributes).     *)
(***************************************************************************)
NoQueue == [exists |-> FALSE, items |-> <<>>]

NewWorker == [pc |-> "get", item |-> <<>>, previous |-> <<>>]

\* _queue_processor_task is None or .done()
NoRunningTask(t) == t = <<>> \/ t[Len(t)].pc = "done"

\* An EnsureQueue that makes a new queue and a new processor task each time.
EnsureQueueAnew(q, t) ==
    [queue |-> [exists |-> TRUE, items |-> <<>>], tasks |-> Append(t, NewWorker)]

\* insight_service.py:38-44 and 867-873: the queue is created once, and the
\* processor task is started only where the queue is created.
EnsureQueue(q, t) ==
    IF ~q.exists
    THEN [queue |-> [exists |-> TRUE, items |-> <<>>],
          tasks |-> IF NoRunningTask(t) THEN Append(t, NewWorker) ELSE t]
    ELSE [queue |-> q, tasks |-> t]

\* A bounded queue that refuses an item when one is waiting.
put_nowait_bounded(items, item) ==
    IF Len(items) >= 1 THEN items ELSE Append(items, item)

\* asyncio.Queue.put_nowait on the unbounded queue of insight_service.py:39
put_nowait(items, item) == Append(items, item)

\* A queue that hands out its newest item.
QueueGetNewest(items) ==
    [item |-> items[Len(items)], rest |-> SubSeq(items, 1, Len(items) - 1)]

\* asyncio.Queue.get: the oldest item (insight_service.py:902)
QueueGet(items) == [item |-> Head(items), rest |-> Tail(items)]

\* insight_service.py:855-884: InsightService.queue_live_call_analysis, on the
\* queue and tasks as they are after InsightService.__init__.  put_nowait on an
\* unbounded queue raises nothing, so the method returns True.
queue_live_call_analysis(q, t, live_call, call_id, seq) ==
    LET e == EnsureQueue(q, t)
    IN  [queue |-> [e.queue EXCEPT !.items =
                        put_nowait(@, [live_call |-> live_call,
                                       call_id |-> call_id,
                                       seq |-> seq])],
         tasks |-> e.tasks]

(***************************************************************************)
(* Conversation turns.                                                     *)
(***************************************************************************)
\* Replaces the last turn on similar text alone.
IsContinuationAnySpeaker(last_turn, current_speaker_type, current_message) ==
    check_prefix_similarity(last_turn.speech, current_message)

\* call_service.py:970: same speaker and similar prefix
IsContinuation(last_turn, current_speaker_type, current_message) ==
    /\ last_turn.speaker_type = current_speaker_type
    /\ check_prefix_similarity(last_turn.speech, current_message)

\* A turn on existing state that drops the last turn where the code
\* replaces it.
UpdatedLiveCallDroppingLast(live_call, message) ==
    LET current_speaker_type == get_speaker_type(message)
        conv == live_call.conversation
        current_message == trim_message_prefix(message)
        turn == ConversationTurn(current_speaker_type, current_message)
    IN  IF IsContinuation(conv[Len(conv)], current_speaker_type, current_message)
        THEN [live_call EXCEPT !.conversation = SubSeq(conv, 1, Len(conv) - 1)]
        ELSE [live_call EXCEPT !.conversation = Append(conv, turn)]

\* A turn on existing state that builds the live call anew around the
\* conversation, as the first turn does.
UpdatedLiveCallWithoutScores(live_call, message) ==
    LET current_speaker_type == get_speaker_type(message)
        conv == live_call.conversation
        current_message == trim_message_prefix(message)
        turn == ConversationTurn(current_speaker_type, current_message)
        fresh == NewLiveCall(live_call.call_id, turn)
    IN  IF IsContinuation(conv[Len(conv)], current_speaker_type, current_message)
        THEN [fresh EXCEPT !.conversation = [conv EXCEPT ![Len(conv)] = turn]]
        ELSE [fresh EXCEPT !.conversation = Append(conv, turn)]

\* call_service.py:958-985: the live call after a turn on existing state.
UpdatedLiveCall(live_call, message) ==
    LET current_speaker_type == get_speaker_type(message)
        conv == live_call.conversation
        last_turn == conv[Len(conv)]
        current_message == trim_message_prefix(message)
        turn == ConversationTurn(current_speaker_type, current_message)
    IN  IF IsContinuation(last_turn, current_speaker_type, current_message)
        THEN [live_call EXCEPT !.conversation = [conv EXCEPT ![Len(conv)] = turn]]
        ELSE [live_call EXCEPT !.conversation = Append(conv, turn)]

NoScores ==
    [sentiment |-> "None", churn_score |-> "None",
     revenue_interest_score |-> "None"]

Event(kind, call_id, status) ==
    [kind |-> kind, call_id |-> call_id, status |-> status]

\* call_service.py:913-991: CallService.process_live_call_conversation_turn,
\* called by webhooks.py: process_conversation_turn.  db_ok = FALSE is a
\* database error in get_call_by_id, which the handler's except swallows.
process_conversation_turn(p, db_ok) ==
    LET c == p.call_id
        e == EnsureQueue(live_call_queue, tasks)
    IN  /\ is_conversation_turn_webhook(p.message)
        /\ n_turns < MaxTurns
        /\ completed' = [completed EXCEPT ![c] = FALSE]
        /\ UNCHANGED deq_log
        /\ IF ~HasLiveCall(live_call_cache, c) /\ ~db_ok
           THEN /\ live_call_queue' = e.queue
                /\ tasks' = e.tasks
                /\ ev' = Event("turn", c, "db_error")
                /\ UNCHANGED <<live_call_cache, n_turns, n_enqueued, last_stored>>
           ELSE LET live_call ==
                        IF ~HasLiveCall(live_call_cache, c)
                        THEN NewLiveCall(c,
                                ConversationTurn(get_speaker_type(p.message),
                                                 trim_message_prefix(p.message)))
                        ELSE UpdatedLiveCall(live_call_cache[c], p.message)
                    queued == queue_live_call_analysis(e.queue, e.tasks,
                                    live_call, c, n_enqueued + 1)
                IN  /\ n_turns' = n_turns + 1
                    /\ live_call_cache' = set_live_call(live_call_cache, c, live_call)
                    /\ live_call_queue' = queued.queue
                    /\ tasks' = queued.tasks
                    /\ n_enqueued' = n_enqueued
                                        + (Len(queued.queue.items) - Len(e.queue.items))
                    /\ last_stored' =
                            IF HasLiveCall(live_call_cache, c) THEN last_stored
                            ELSE [last_stored EXCEPT ![c] = NoScores]
                    /\ ev' = Event("turn", c, "ok")

\* Skips the invalidation for a call that has no row.
InvalidateKnownCallsOnly(cache, call_id) ==
    IF call_id \in DbCalls THEN invalidate_live_call_cache(cache, call_id) ELSE cache

\* webhooks.py:153-154: the live state is invalidated whatever the lookup gave.
FinalInvalidate(cache, call_id) == invalidate_live_call_cache(cache, call_id)

\* webhooks.py:133-188: process_final_webhook.  db_ok = FALSE is a database
\* error in CallService.update_call_from_webhook (its query or its commit),
\* which leaves the function before the invalidation; bland_ai_webhook's
\* except turns it into an "error" response.
process_final_webhook(p, db_ok) ==
    LET c == p.call_id
        should_process == p.status = "completed" /\ p.concatenated_transcript # "None"
        e == IF c \in DbCalls /\ should_process
             THEN EnsureQueue(live_call_queue, tasks)
             ELSE [queue |-> live_call_queue, tasks |-> tasks]
    IN  /\ ~is_conversation_turn_webhook(p.message)
        /\ p.completed
        /\ UNCHANGED <<n_turns, n_enqueued, deq_log>>
        /\ IF ~db_ok
           THEN UNCHANGED <<live_call_cache, live_call_queue, tasks, ev,
                            last_stored, completed>>
           ELSE /\ live_call_cache' = FinalInvalidate(live_call_cache, c)
                /\ completed' =
                        [completed EXCEPT ![c] =
                            ~HasLiveCall(FinalInvalidate(live_call_cache, c), c)]
                /\ last_stored' =
                        IF HasLiveCall(FinalInvalidate(live_call_cache, c), c)
                        THEN last_stored
                        ELSE [last_stored EXCEPT ![c] = NoScores]
                /\ live_call_queue' = e.queue
                /\ tasks' = e.tasks
                /\ ev' = Event("final", c, "handled")

\* webhooks.py:87-88: neither a conversation turn nor a completion.
webhook_ignored(p) ==
    /\ ~is_conversation_turn_webhook(p.message)
    /\ ~p.completed
    /\ UNCHANGED vars

\* webhooks.py:47-93: bland_ai_webhook dispatches on the message, then on completed.
bland_ai_webhook(p, db_ok) ==
    /\ \/ process_conversation_turn(p, db_ok)
       \/ process_final_webhook(p, db_ok)
       \/ webhook_ignored(p)
    /\ UNCHANGED cacheVars

\* insight_service.py:32-44: InsightService.__init__, as the API routes run it.
InsightServiceInit ==
    LET e == EnsureQueue(live_call_queue, tasks)
    IN  /\ live_call_queue' = e.queue
        /\ tasks' = e.tasks
        /\ UNCHANGED <<live_call_cache, ev, n_turns, n_enqueued, deq_log,
                       last_stored, completed, cacheVars>>

\* cache_service.py:494: the TTLCache drops an entry 3600 s after it was set.
LiveCallExpires(c) ==
    /\ HasLiveCall(live_call_cache, c)
    /\ live_call_cache' = invalidate_live_call_cache(live_call_cache, c)
    /\ last_stored' = [last_stored EXCEPT ![c] = NoScores]
    /\ ev' = Event("expire", c, "ok")
    /\ UNCHANGED <<live_call_queue, tasks, n_turns, n_enqueued, deq_log, completed,
                   cacheVars>>

(***************************************************************************)
(* The queue processor (InsightService._process_live_call_queue).  The     *)
(* await of the analysis call (insight_service.py:937) is a point where    *)
(* the webhook handlers may run; everything between two awaits is one      *)
(* step.  The branch for a missing queue (897-899) cannot run: the task is *)
(* only ever created together with the queue.                              *)
(***************************************************************************)
\* insight_service.py:916-919: the speech of the USER turns
UserTurns(live_call) ==
    LET user == SelectSeq(live_call.conversation,
                          LAMBDA turn : turn.speaker_type = "USER")
    IN  [i \in 1..Len(user) |-> user[i].speech]

\* insight_service.py:931-933: the previous values come from the queued LiveCall.
PreviousScores(item) ==
    [sentiment |-> item.live_call.sentiment,
     churn_score |-> item.live_call.churn_score,
     revenue_interest_score |-> item.live_call.revenue_interest_score]

\* ai_service.py:199-204: default_result
DefaultResult ==
    [sentiment |-> "neutral", churn_score |-> "0.0",
     revenue_interest_score |-> "0.0", confidence |-> "0.5"]

OtherResult ==
    [sentiment |-> "negative", churn_score |-> "0.8",
     revenue_interest_score |-> "0.2", confidence |-> "0.9"]

\* ai_service.py:206-207 and 209-314: a blank conversation gives the default
\* result; otherwise the model answers, and every failure of the request or of
\* the parsing gives the default result too.
AnalysisResults(user_turns) ==
    IF \A i \in 1..Len(user_turns) : user_turns[i] = <<>>
    THEN {DefaultResult}
    ELSE {DefaultResult, OtherResult}

WithScores(live_call, result) ==
    [live_call EXCEPT !.sentiment = result.sentiment,
                      !.churn_score = result.churn_score,
                      !.revenue_interest_score = result.revenue_interest_score,
                      !.confidence = result.confidence]

\* Stores the result without looking at the cache again.
WorkerStoreNoRecheck(cache, item, result) ==
    set_live_call(cache, item.call_id,
        WithScores(IF HasLiveCall(cache, item.call_id)
                   THEN cache[item.call_id] ELSE item.live_call, result))

\* Stores the queued LiveCall with the new scores.
WorkerStoreSnapshot(cache, item, result) ==
    IF ~HasLiveCall(cache, item.call_id) THEN cache
    ELSE set_live_call(cache, item.call_id, WithScores(item.live_call, result))

\* insight_service.py:951-967: the cache after the analysis returned: nothing
\* is stored for a call that left the cache; otherwise the cached LiveCall is
\* copied with the four analysis fields replaced.
WorkerStore(cache, item, result) ==
    IF ~HasLiveCall(cache, item.call_id) THEN cache
    ELSE set_live_call(cache, item.call_id, WithScores(cache[item.call_id], result))

\* The task ends on an exception.
AfterExceptionStops == "done"

\* insight_service.py:973-981: the except logs, marks the item done, sleeps
\* one second and loops.
AfterException == "sleep"

\* insight_service.py:902-933: take an item; skip it when the call left the
\* cache or has no USER turn; otherwise start the analysis.
WorkerGet(w) ==
    /\ tasks[w].pc = "get"
    /\ live_call_queue.exists
    /\ live_call_queue.items # <<>>
    /\ LET got == QueueGet(live_call_queue.items)
           item == got.item
       IN  /\ live_call_queue' = [live_call_queue EXCEPT !.items = got.rest]
           /\ deq_log' = Append(deq_log, item.seq)
           /\ IF ~HasLiveCall(live_call_cache, item.call_id)
              THEN /\ ev' = Event("worker", item.call_id, "skip")
                   /\ UNCHANGED tasks
              ELSE IF UserTurns(item.live_call) = <<>>
              THEN /\ ev' = Event("worker", item.call_id, "skip")
                   /\ UNCHANGED tasks
              ELSE /\ ev' = Event("worker", item.call_id, "start")
                   /\ tasks' = [tasks EXCEPT ![w] =
                                    [pc |-> "analyzing", item |-> <<item>>,
                                     previous |-> <<PreviousScores(item)>>]]
    /\ UNCHANGED <<live_call_cache, n_turns, n_enqueued, last_stored, completed>>

\* insight_service.py:937-971: the analysis returned.
WorkerAnalysisReturns(w, result) ==
    /\ tasks[w].pc = "analyzing"
    /\ LET item == tasks[w].item[1]
           c == item.call_id
       IN  /\ result \in AnalysisResults(UserTurns(item.live_call))
           /\ live_call_cache' = WorkerStore(live_call_cache, item, result)
           /\ IF live_call_cache' # live_call_cache
                   \/ HasLiveCall(live_call_cache, c)
              THEN /\ ev' = Event("worker", c, "store")
                   /\ last_stored' = [last_stored EXCEPT ![c] =
                        [sentiment |-> result.sentiment,
                         churn_score |-> result.churn_score,
                         revenue_interest_score |-> result.revenue_interest_score]]
              ELSE /\ ev' = Event("worker", c, "discard")
                   /\ UNCHANGED last_stored
    /\ tasks' = [tasks EXCEPT ![w] = NewWorker]
    /\ UNCHANGED <<live_call_queue, n_turns, n_enqueued, deq_log, completed>>

\* ai_service.py:195-196 raises when no API key is configured; the worker's
\* except (insight_service.py:973-981) handles it.
WorkerAnalysisRaises(w) ==
    /\ tasks[w].pc = "analyzing"
    /\ tasks' = [tasks EXCEPT ![w] =
                    [pc |-> AfterException, item |-> <<>>, previous |-> <<>>]]
    /\ ev' = Event("worker", tasks[w].item[1].call_id, "exception")
    /\ UNCHANGED <<live_call_cache, live_call_queue, n_turns, n_enqueued,
                   deq_log, last_stored, completed>>

\* insight_service.py:981: the sleep is over.
WorkerWakes(w) ==
    /\ tasks[w].pc = "sleep"
    /\ tasks' = [tasks EXCEPT ![w] = NewWorker]
    /\ ev' = Event("worker", "None", "wake")
    /\ UNCHANGED <<live_call_cache, live_call_queue, n_turns, n_enqueued,
                   deq_log, last_stored, completed>>

WorkerStep ==
    /\ \E w \in 1..Len(tasks) :
            \/ WorkerGet(w)
            \/ \E result \in {DefaultResult, OtherResult} : WorkerAnalysisReturns(w, result)
            \/ WorkerAnalysisRaises(w)
            \/ WorkerWakes(w)
    /\ UNCHANGED cacheVars

(***************************************************************************)
(* The query caches (CacheService).  A cache key is the md5 hexdigest of   *)
(* a key string; the model keeps the key string inside the digest, as a    *)
(* sequence of parts, only to tell digests apart (md5 is taken to be       *)
(* collision-free).  The text of a digest is 32 characters of 0-9a-f.      *)
(***************************************************************************)
MaxWrites == 1

Gyms == {"g1", "g2"}

\* calls.gym_id of the calls that have a row; a call without a row has no gym.
CallGym(call_id) == IF call_id \in DbCalls THEN "g1" ELSE "None"

Md5(key_string) == [md5_of |-> key_string]

HexDigits == {"0", "1", "2", "3", "4", "5", "6", "7", "8", "9",
              "a", "b", "c", "d", "e", "f"}

InKeyStrAlways(needle, key) == TRUE

\* `needle in str(key)` for a key that is a hexdigest: a needle with a
\* character outside 0-9a-f is no substring of it.
\* (Needles of hex digits only do not occur: every tag starts with "gym:"
\* and every cache type has a letter after f.)
InKeyStr(needle, key) ==
    IF \E i \in 1..Len(needle) : needle[i] \notin HexDigits
    THEN FALSE
    ELSE needle = <<>>

\* f"gym:{gym_id}" as characters; the gym id counts as one symbol.
GymTag(gym_id) == <<"g", "y", "m", ":", gym_id>>

\* The characters of a cache_type argument.
CacheTypeChars(cache_type) ==
    IF cache_type = "churn" THEN <<"c", "h", "u", "r", "n">> ELSE <<>>

\* The parameter names the callers pass as **kwargs, in sorted() order.
KwargOrder == <<"churn_min_score", "end_date", "limit", "opportunity", "order_by",
                "pain_point", "revenue_interest", "revenue_min_score",
                "revenue_threshold", "sentiment", "start_date", "status">>

NoKwargs == [k \in {} |-> "None"]

\* cache_service.py:44-46: the non-None kwargs as "k:v" parts, sorted by name.
KwargParts(kwargs) ==
    LET present(k) == k \in DOMAIN kwargs /\ kwargs[k] # "None"
        part(k) == <<k, kwargs[k]>>
        picked == SelectSeq(KwargOrder, present)
    IN  [i \in 1..Len(picked) |-> part(picked[i])]

\* cache_service.py:23-50.
generate_cache_key(cache_type, gym_id, days, period, threshold, kwargs) ==
    LET key_parts ==
            <<cache_type>>
            \o (IF gym_id # "None" THEN <<<<"gym", gym_id>>>> ELSE <<>>)
            \o (IF days # "None" THEN <<<<"days", days>>>> ELSE <<>>)
            \o (IF period # "None" THEN <<<<"period", period>>>> ELSE <<>>)
            \o (IF threshold # "None" THEN <<<<"threshold", threshold>>>> ELSE <<>>)
            \o KwargParts(kwargs)
    IN  Md5(key_parts)

\* The key was generated with this gym_id.
KeyOfGym(key, gym_id) ==
    \E i \in 1..Len(key.md5_of) : key.md5_of[i] = <<"gym", gym_id>>

\* sorted(call_ids) for the call ids of the model.
CallOrder == <<"c1", "c2">>

RECURSIVE SortedFrom(_, _)
SortedFrom(call_ids, n) ==
    IF n > Len(CallOrder)
    THEN <<>>
    ELSE SelectSeq(call_ids, LAMBDA c : c = CallOrder[n]) \o SortedFrom(call_ids, n + 1)

SortedIds(call_ids) == SortedFrom(call_ids, 1)

\* cache_service.py:311-314.
bulk_insights_key(call_ids) == Md5(<<<<"bulk_insights">> \o SortedIds(call_ids)>>)

(***************************************************************************)
(* Cached values.  fetch_func reads the database: its result is the data   *)
(* of the current version of what it reads, or None.                       *)
(***************************************************************************)
NoneValue == [kind |-> "None", version |-> 0]

Data(n) == [kind |-> "data", version |-> n]

RECURSIVE SumWrites(_, _)
SumWrites(d, call_ids) ==
    IF call_ids = {}
    THEN 0
    ELSE LET c == CHOOSE x \in call_ids : TRUE
         IN  d[c] + SumWrites(d, call_ids \ {c})

\* What a query filtered by gym reads, and what a query by call ids reads.
GymVersion(d, gym_id) == SumWrites(d, {c \in Calls : CallGym(c) = gym_id})

IdsVersion(d, call_ids) == SumWrites(d, {call_ids[i] : i \in 1..Len(call_ids)})

FetchResults(version) == {NoneValue, Data(version)}

\* TTLCache.get(key): the stored value, None when there is no live entry.
CacheGet(cache, key) == IF key \in DOMAIN cache THEN cache[key] ELSE NoneValue

EmptyCache == [k \in {} |-> NoneValue]

\* cache[key] = data
CachePut(cache, key, data) ==
    [k \in DOMAIN cache \cup {key} |-> IF k = key THEN data ELSE cache[k]]

\* cache.pop(key, None) for every key of a set
CachePopAll(cache, keys) == [k \in DOMAIN cache \ keys |-> cache[k]]

NoKey == Md5(<<>>)

Ret(op, gym_id, key, fetched, value) ==
    [op |-> op, gym_id |-> gym_id, key |-> key, fetched |-> fetched, value |-> value]

\* The `cached is not None` pattern of the four get operations: what the
\* operation stores, whether it called fetch_func, and what it returns.
get_or_fetch(cache, key, data) ==
    LET cached == CacheGet(cache, key)
    IN  IF cached # NoneValue
        THEN [cache |-> cache, fetched |-> FALSE, value |-> cached]
        ELSE [cache |-> CachePut(cache, key, data), fetched |-> TRUE, value |-> data]

(***************************************************************************)
(* The cache operations.  Each one is a step; ret records the call.        *)
(***************************************************************************)
\* cache_service.py:59-113, as get_churn_trend_data calls it (days=30, no dates).
get_trend_data(cache_type, gym_id, period, data) ==
    LET cache_key == generate_cache_key(<<"trend", cache_type>>, gym_id, "30", period,
                                        "None", NoKwargs)
        r == get_or_fetch(trend_cache, cache_key, data)
    IN  /\ trend_cache' = r.cache
        /\ ret' = Ret("get_trend_data", gym_id, cache_key, r.fetched, r.value)
        /\ UNCHANGED <<dashboard_cache, bulk_insights_cache, chart_calls_cache, db, live_call_cache>>

\* cache_service.py:193-237.
get_dashboard_summary(gym_id, churn_threshold, revenue_threshold, data) ==
    LET cache_key == generate_cache_key(<<"dashboard", "summary">>, gym_id, "None", "None",
                                        churn_threshold,
                                        [k \in {"revenue_threshold"} |-> revenue_threshold])
        r == get_or_fetch(dashboard_cache, cache_key, data)
    IN  /\ dashboard_cache' = r.cache
        /\ ret' = Ret("get_dashboard_summary", gym_id, cache_key, r.fetched, r.value)
        /\ UNCHANGED <<trend_cache, bulk_insights_cache, chart_calls_cache, db, live_call_cache>>

\* cache_service.py:296-327.
get_bulk_insights(call_ids, data) ==
    LET cache_key == bulk_insights_key(call_ids)
        r == get_or_fetch(bulk_insights_cache, cache_key, data)
    IN  /\ bulk_insights_cache' = r.cache
        /\ ret' = Ret("get_bulk_insights", "None", cache_key, r.fetched, r.value)
        /\ UNCHANGED <<trend_cache, dashboard_cache, chart_calls_cache, db, live_call_cache>>

is_chart_query_any_dates(start_date, end_date, limit) == limit <= 200

\* cache_service.py:369-374.
is_chart_query(start_date, end_date, limit) ==
    start_date # "None" /\ end_date # "None" /\ limit <= 200

\* cache_service.py:330-443, with the filters list_calls passes.
get_chart_calls(gym_id, start_date, end_date, limit, data) ==
    LET cache_key == generate_cache_key(<<"chart", "calls">>, gym_id, "None", "None", "None",
                        [k \in {"start_date", "end_date", "limit"} |->
                            CASE k = "start_date" -> start_date
                              [] k = "end_date" -> end_date
                              [] k = "limit" -> ToString(limit)])
        r == get_or_fetch(chart_calls_cache, cache_key, data)
    IN  IF ~is_chart_query(start_date, end_date, limit)
        THEN /\ ret' = Ret("get_chart_calls", gym_id, NoKey, TRUE, data)
             /\ UNCHANGED <<poolVars, db, live_call_cache>>
        ELSE /\ chart_calls_cache' = r.cache
             /\ ret' = Ret("get_chart_calls", gym_id, cache_key, r.fetched, r.value)
             /\ UNCHANGED <<trend_cache, dashboard_cache, bulk_insights_cache, db, live_call_cache>>

\* cache_service.py:240-270.
invalidate_trend_cache(cache, cache_type, gym_id) ==
    LET should_invalidate(key) ==
            /\ cache_type = "None" \/ InKeyStr(CacheTypeChars(cache_type), key)
            /\ ~(gym_id # "None" /\ ~InKeyStr(GymTag(gym_id), key))
    IN  CachePopAll(cache, {key \in DOMAIN cache : should_invalidate(key)})

\* cache_service.py:273-293.
invalidate_dashboard_cache(cache, gym_id) ==
    LET should_invalidate(key) == ~(gym_id # "None" /\ ~InKeyStr(GymTag(gym_id), key))
    IN  CachePopAll(cache, {key \in DOMAIN cache : should_invalidate(key)})

\* cache_service.py:446-461; call_ids is None (<<>>) or a list (<<list>>).
invalidate_bulk_insights_cache(cache, call_ids) ==
    IF call_ids = <<>>
    THEN EmptyCache
    ELSE CachePopAll(cache, {bulk_insights_key(call_ids[1])})

\* cache_service.py:464-482.
invalidate_chart_calls_cache(cache, gym_id) ==
    IF gym_id = "None"
    THEN EmptyCache
    ELSE CachePopAll(cache, {key \in DOMAIN cache : InKeyStr(GymTag(gym_id), key)})

InvalidateTrend(cache_type, gym_id) ==
    /\ trend_cache' = invalidate_trend_cache(trend_cache, cache_type, gym_id)
    /\ ret' = Ret("invalidate_trend_cache", gym_id, NoKey, FALSE, NoneValue)
    /\ UNCHANGED <<dashboard_cache, bulk_insights_cache, chart_calls_cache, db, live_call_cache>>

InvalidateDashboard(gym_id) ==
    /\ dashboard_cache' = invalidate_dashboard_cache(dashboard_cache, gym_id)
    /\ ret' = Ret("invalidate_dashboard_cache", gym_id, NoKey, FALSE, NoneValue)
    /\ UNCHANGED <<trend_cache, bulk_insights_cache, chart_calls_cache, db, live_call_cache>>

InvalidateBulkInsights(call_ids) ==
    /\ bulk_insights_cache' = invalidate_bulk_insights_cache(bulk_insights_cache, call_ids)
    /\ ret' = Ret("invalidate_bulk_insights_cache", "None", NoKey, FALSE, NoneValue)
    /\ UNCHANGED <<trend_cache, dashboard_cache, chart_calls_cache, db, live_call_cache>>

InvalidateChartCalls(gym_id) ==
    /\ chart_calls_cache' = invalidate_chart_calls_cache(chart_calls_cache, gym_id)
    /\ ret' = Ret("invalidate_chart_calls_cache", gym_id, NoKey, FALSE, NoneValue)
    /\ UNCHANGED <<trend_cache, dashboard_cache, bulk_insights_cache, db, live_call_cache>>

\* cache_service.py:485-491.
clear_all ==
    /\ trend_cache' = EmptyCache
    /\ dashboard_cache' = EmptyCache
    /\ bulk_insights_cache' = EmptyCache
    /\ chart_calls_cache' = EmptyCache
    /\ live_call_cache' = <<>>
    /\ ret' = Ret("clear_all", "None", NoKey, FALSE, NoneValue)
    /\ UNCHANGED db

\* insight_service.py:46-150: the extraction or the commit may raise, and then
\* nothing is stored and no cache is touched; after a commit the caches of the
\* call's gym are invalidated and the bulk cache is cleared.
analyze_and_store_insights(call_id, outcome) ==
    LET gym_id == CallGym(call_id)
    IN  IF outcome # "stored"
        THEN /\ ret' = Ret("analyze_and_store_insights", gym_id, NoKey, FALSE, NoneValue)
             /\ UNCHANGED <<poolVars, db, live_call_cache>>
        ELSE /\ SumWrites(db, Calls) < MaxWrites
             /\ db' = [db EXCEPT ![call_id] = @ + 1]
             /\ trend_cache' = invalidate_trend_cache(trend_cache, "None", gym_id)
             /\ dashboard_cache' = invalidate_dashboard_cache(dashboard_cache, gym_id)
             /\ chart_calls_cache' = invalidate_chart_calls_cache(chart_calls_cache, gym_id)
             /\ bulk_insights_cache' = invalidate_bulk_insights_cache(bulk_insights_cache, <<>>)
             /\ ret' = Ret("analyze_and_store_insights", gym_id, NoKey, FALSE, Data(0))
             /\ UNCHANGED live_call_cache

\* cache_service.py:18-21: a TTLCache drops an entry when its TTL has passed.
Expires(cache) ==
    \E key \in DOMAIN cache : cache' = CachePopAll(cache, {key})

TtlExpiry ==
    /\ \/ Expires(trend_cache)
          /\ UNCHANGED <<dashboard_cache, bulk_insights_cache, chart_calls_cache>>
       \/ Expires(dashboard_cache)
          /\ UNCHANGED <<trend_cache, bulk_insights_cache, chart_calls_cache>>
       \/ Expires(bulk_insights_cache)
          /\ UNCHANGED <<trend_cache, dashboard_cache, chart_calls_cache>>
       \/ Expires(chart_calls_cache)
          /\ UNCHANGED <<trend_cache, dashboard_cache, bulk_insights_cache>>
    /\ ret' = Ret("ttl_expiry", "None", NoKey, FALSE, NoneValue)
    /\ UNCHANGED <<db, live_call_cache>>

CacheInit ==
    /\ trend_cache = EmptyCache
    /\ dashboard_cache = EmptyCache
    /\ bulk_insights_cache = EmptyCache
    /\ chart_calls_cache = EmptyCache
    /\ db = [c \in Calls |-> 0]
    /\ ret = Ret("init", "None", NoKey, FALSE, NoneValue)

OptionalGyms == Gyms \cup {"None"}

CallIdLists == {<<"c1">>, <<"c1", "c2">>, <<"c2", "c1">>}

\* The requests of the model: <<start_date, end_date, limit>> of a calls list.
ChartQueries == {<<"2025-01-01", "2025-01-31", 200>>,
                 <<"None", "2025-01-31", 200>>,
                 <<"2025-01-01", "None", 200>>,
                 <<"2025-01-01", "2025-01-31", 201>>}

\* Trends are asked for both gyms, the dashboard and the calls list for one.
SingleGym == {"g1"}

CacheGets ==
    \/ \E gym_id \in Gyms : \E data \in FetchResults(GymVersion(db, gym_id)) :
            get_trend_data("churn", gym_id, "day", data)
    \/ \E gym_id \in SingleGym : \E data \in FetchResults(GymVersion(db, gym_id)) :
            \/ get_dashboard_summary(gym_id, "0.8", "0.8", data)
            \/ \E q \in ChartQueries : get_chart_calls(gym_id, q[1], q[2], q[3], data)
    \/ \E call_ids \in CallIdLists : \E data \in FetchResults(IdsVersion(db, call_ids)) :
            get_bulk_insights(call_ids, data)

CacheInvalidations ==
    \/ \E gym_id \in OptionalGyms :
            \/ \E cache_type \in {"None", "churn"} : InvalidateTrend(cache_type, gym_id)
            \/ InvalidateDashboard(gym_id)
            \/ InvalidateChartCalls(gym_id)
    \/ \E call_ids \in {<<>>} \cup {<<ids>> : ids \in CallIdLists} :
            InvalidateBulkInsights(call_ids)
    \/ clear_all

CacheNext ==
    /\ \/ CacheGets
       \/ CacheInvalidations
       \/ \E call_id \in Calls, outcome \in {"stored", "extract_error", "commit_error"} :
            analyze_and_store_insights(call_id, outcome)
       \/ TtlExpiry
    /\ UNCHANGED <<liveVars, clockVars>>

(***************************************************************************)
(* Time.  The pools are TTLCaches: an entry stored at time t is gone at     *)
(* every time >= t + ttl.  A tick moves the clock and drops what is due.    *)
(***************************************************************************)
TrendTTL == 300
DashboardTTL == 180
BulkInsightsTTL == 600
ChartCallsTTL == 300
LiveCallTTL == 3600

DaySeconds == 86400

NoStamps == [trend |-> EmptyCache, dashboard |-> EmptyCache, bulk |-> EmptyCache,
             chart |-> EmptyCache, live |-> EmptyCache]

ClockInit ==
    /\ now = 0
    /\ stored_at = NoStamps
    /\ written_at = 0

UnexpiredInclusive(cache, stamps, ttl, t) ==
    [k \in {x \in DOMAIN cache : x \in DOMAIN stamps => t <= stamps[x] + ttl} |-> cache[k]]

\* The entries of a pool that are not expired at time t.
Unexpired(cache, stamps, ttl, t) ==
    [k \in {x \in DOMAIN cache : x \in DOMAIN stamps => t < stamps[x] + ttl} |-> cache[k]]

\* The stamps of a pool after an operation on it at time t: an entry that is
\* new or was written again is stamped t, an entry that is gone loses its stamp.
Stamped(stamps, cache, written, t) ==
    [k \in DOMAIN cache |->
        IF k \in written \/ k \notin DOMAIN stamps THEN t ELSE stamps[k]]

\* The stamps after an operation that wrote the keys `written` of the query
\* pools and the live state of the calls `calls` at time now.
RestampAll(written, calls) ==
    stored_at' = [trend |-> Stamped(stored_at.trend, trend_cache', written, now),
                  dashboard |-> Stamped(stored_at.dashboard, dashboard_cache', written, now),
                  bulk |-> Stamped(stored_at.bulk, bulk_insights_cache', written, now),
                  chart |-> Stamped(stored_at.chart, chart_calls_cache', written, now),
                  live |-> Stamped(stored_at.live, live_call_cache', calls, now)]

Restamp(written) == RestampAll(written, {})

\* The stamps after an operation on the live-call pool alone.
RestampLive(calls) ==
    stored_at' = [stored_at EXCEPT !.live = Stamped(@, live_call_cache', calls, now)]

\* The clock moves by step seconds; what is due in the four query pools is gone.
Tick(step) ==
    /\ now' = now + step
    /\ trend_cache' = Unexpired(trend_cache, stored_at.trend, TrendTTL, now')
    /\ dashboard_cache' = Unexpired(dashboard_cache, stored_at.dashboard, DashboardTTL, now')
    /\ bulk_insights_cache' = Unexpired(bulk_insights_cache, stored_at.bulk, BulkInsightsTTL, now')
    /\ chart_calls_cache' = Unexpired(chart_calls_cache, stored_at.chart, ChartCallsTTL, now')
    /\ live_call_cache' = Unexpired(live_call_cache, stored_at.live, LiveCallTTL, now')
    /\ Restamp({})
    /\ ret' = Ret("tick", "None", NoKey, FALSE, NoneValue)
    /\ UNCHANGED <<db, written_at, liveVars>>

(***************************************************************************)
(* get_trend_data_smart.  A date is a day number (now \div DaySeconds); a   *)
(* data point carries its date and where it comes from: a fetch of this     *)
(* call, or the pool.  fetch_func returns one point per date of its range.  *)
(***************************************************************************)
MaxTicks == 5

TickSeconds == 120

\* Two minutes before the midnight that ends day 1.
SmartStart == 2 * DaySeconds - TickSeconds

TrendPoints(first_day, last_day, origin) ==
    [i \in 1..(last_day - first_day + 1) |-> [date |-> first_day + i - 1, origin |-> origin]]

FromPool(points) == [i \in 1..Len(points) |-> [points[i] EXCEPT !.origin = "pool"]]

ListValue(points, fetches) == [kind |-> "list", points |-> points, fetches |-> fetches]

keep_all_data(all_data, today) == all_data

\* cache_service.py:183-184.
historical_of(all_data, today) == SelectSeq(all_data, LAMBDA item : item.date # today)

\* cache_service.py:116-190.
get_trend_data_smart(cache_type, gym_id, days, period) ==
    LET today == now \div DaySeconds
        historical_key == generate_cache_key(<<"trend", cache_type, "historical">>, gym_id,
                                             ToString(days), period, "None", NoKwargs)
        cached_historical == CacheGet(trend_cache, historical_key)
        today_data == TrendPoints(today, today, "fetch")
        all_data == TrendPoints(today - days, today, "fetch")
        historical_data == historical_of(all_data, today)
    IN  /\ UNCHANGED <<dashboard_cache, bulk_insights_cache, chart_calls_cache, db, now,
                       written_at, live_call_cache, liveVars>>
        /\ IF cached_historical.kind # "None"
           THEN LET filtered_historical ==
                        SelectSeq(cached_historical.points, LAMBDA item : item.date # today)
                IN  /\ ret' = Ret("get_trend_data_smart", gym_id, historical_key, TRUE,
                                  ListValue(filtered_historical \o today_data, <<"today">>))
                    /\ UNCHANGED <<trend_cache, stored_at>>
           ELSE /\ trend_cache' = CachePut(trend_cache, historical_key,
                                           ListValue(FromPool(historical_data), <<>>))
                /\ ret' = Ret("get_trend_data_smart", gym_id, historical_key, TRUE,
                              ListValue(all_data, <<"today", "window">>))
                /\ Restamp({historical_key})

(***************************************************************************)
(* The live-call system.                                                   *)
(***************************************************************************)
\* Nothing has happened yet.
QuietInit ==
    /\ live_call_cache = <<>>
    /\ live_call_queue = NoQueue
    /\ tasks = <<>>
    /\ ev = Event("init", "None", "ok")
    /\ n_turns = 0
    /\ n_enqueued = 0
    /\ deq_log = <<>>
    /\ last_stored = [c \in Calls |-> NoScores]
    /\ completed = [c \in Calls |-> FALSE]
    /\ CacheInit

LiveInit == QuietInit /\ ClockInit

LiveNext ==
    \/ \E p \in TurnPayloads(LiveTurnMessages) \cup StatusPayloads, db_ok \in BOOLEAN :
            bland_ai_webhook(p, db_ok)
    \/ InsightServiceInit
    \/ \E c \in Calls : LiveCallExpires(c)
    \/ WorkerStep

SpecLive == LiveInit /\ [][LiveNext]_vars

\* The event loop runs a task that is ready: the worker is not starved.
SpecLiveFair == SpecLive /\ WF_vars(WorkerStep)

\* The webhook endpoint alone, with every text: the worker is not scheduled.
TurnsNext ==
    \E p \in TurnPayloads(TurnMessages) \cup StatusPayloads, db_ok \in BOOLEAN :
        bland_ai_webhook(p, db_ok)

SpecTurns == LiveInit /\ [][TurnsNext]_vars

\* The query caches alone.
SpecCache == LiveInit /\ [][CacheNext]_vars

\* get_trend_data_smart around a midnight.
SmartInit ==
    /\ QuietInit
    /\ now = SmartStart
    /\ stored_at = NoStamps
    /\ written_at = 0

SmartNext ==
    \/ \E gym_id \in Gyms : get_trend_data_smart("churn", gym_id, 1, "day")
    \/ (now - SmartStart) \div TickSeconds < MaxTicks /\ Tick(TickSeconds)
    \/ /\ InvalidateTrend("None", "None")
       /\ Restamp({})
       /\ UNCHANGED <<now, written_at, liveVars>>

SpecSmart == SmartInit /\ [][SmartNext]_vars

(***************************************************************************)
(* The five pools against the clock.  The pools are exercised one at a     *)
(* time: an operation on a pool runs while the other pools are empty.      *)
(***************************************************************************)
MaxNow == 3720

\* A minute, and a jump to the last minutes of the hour.
TtlSteps == {60, 3000}

Alone(name) ==
    \A other \in DOMAIN stored_at \ {name} : DOMAIN stored_at[other] = {}

LiveValue == [kind |-> "live_call", version |-> 0]

\* cache_service.py:497-507, as an operation of its own.
GetLiveCall(call_id) ==
    /\ ret' = Ret("get_live_call", "None", NoKey, FALSE,
                  IF HasLiveCall(live_call_cache, call_id) THEN LiveValue ELSE NoneValue)
    /\ UNCHANGED <<poolVars, db, live_call_cache, liveVars, clockVars>>

\* cache_service.py:510-518, as an operation of its own.
SetLiveCall(call_id, live_call) ==
    /\ live_call_cache' = set_live_call(live_call_cache, call_id, live_call)
    /\ ret' = Ret("set_live_call", "None", NoKey, FALSE, NoneValue)
    /\ UNCHANGED <<poolVars, db, liveVars, now, written_at>>
    /\ RestampLive({call_id})

\* The reads of gym g1 and of call c1; fetch_func returns the current data.
TtlGets ==
    /\ \/ Alone("trend") /\ get_trend_data("churn", "g1", "day", Data(GymVersion(db, "g1")))
       \/ Alone("dashboard")
            /\ get_dashboard_summary("g1", "0.8", "0.8", Data(GymVersion(db, "g1")))
       \/ Alone("chart")
            /\ get_chart_calls("g1", "2025-01-01", "2025-01-31", 200,
                               Data(GymVersion(db, "g1")))
       \/ Alone("bulk") /\ get_bulk_insights(<<"c1">>, Data(IdsVersion(db, <<"c1">>)))
    /\ UNCHANGED <<now, written_at, liveVars>>
    /\ Restamp(IF ret'.fetched THEN {ret'.key} ELSE {})

TtlWrite ==
    /\ analyze_and_store_insights("c1", "stored")
    /\ written_at' = now
    /\ UNCHANGED <<now, liveVars>>
    /\ Restamp({})

TtlNext ==
    \/ TtlGets
    \/ TtlWrite
    \/ GetLiveCall("c1")
    \/ Alone("live")
        /\ SetLiveCall("c1", NewLiveCall("c1", ConversationTurn("USER", TextAbcd)))
    \/ \E step \in TtlSteps : now + step <= MaxNow /\ Tick(step)

SpecTtl == LiveInit /\ [][TtlNext]_vars

(***************************************************************************)
(* The five pools side by side: every operation on one pool, for both      *)
(* gyms, while the other pools hold entries.  The database does not change. *)
(***************************************************************************)
\* cache_service.py:545-552, as an operation of its own.
InvalidateLiveCall(call_id) ==
    /\ live_call_cache' = invalidate_live_call_cache(live_call_cache, call_id)
    /\ ret' = Ret("invalidate_live_call_cache", "None", NoKey, FALSE, NoneValue)
    /\ UNCHANGED <<poolVars, db, liveVars, now, written_at>>
    /\ RestampLive({})

PoolsGets ==
    \/ \E gym_id \in Gyms :
            LET data == Data(GymVersion(db, gym_id))
            IN  \/ get_trend_data("churn", gym_id, "day", data)
                \/ get_dashboard_summary(gym_id, "0.8", "0.8", data)
                \/ \E q \in ChartQueries : get_chart_calls(gym_id, q[1], q[2], q[3], data)
    \/ \E call_ids \in CallIdLists :
            get_bulk_insights(call_ids, Data(IdsVersion(db, call_ids)))

PoolsNext ==
    \/ (PoolsGets \/ CacheInvalidations) /\ UNCHANGED <<liveVars, clockVars>>
    \/ GetLiveCall("c1")
    \/ SetLiveCall("c1", NewLiveCall("c1", ConversationTurn("USER", TextAbcd)))
    \/ InvalidateLiveCall("c1")

SpecPools == LiveInit /\ [][PoolsNext]_vars

(***************************************************************************)
(* _generate_cache_key on characters.  Every string is the sequence of its *)
(* characters, an Optional argument is a sequence of length 0 (None) or 1, *)
(* and a value carries its Python type, which decides how the f-string     *)
(* formats it and whether it is truthy.                                    *)
(***************************************************************************)
StrVal(chars) == [type |-> "str", chars |-> chars, n |-> 0]

IntVal(n) == [type |-> "int", chars |-> <<>>, n |-> n]

\* A float that is a whole number of tenths.
FloatVal(tenths) == [type |-> "float", chars |-> <<>>, n |-> tenths]

DigitChars == <<"0", "1", "2", "3", "4", "5", "6", "7", "8", "9">>

\* str(n) for an int n >= 0.
RECURSIVE IntStr(_)
IntStr(n) ==
    IF n < 10
    THEN <<DigitChars[n + 1]>>
    ELSE IntStr(n \div 10) \o <<DigitChars[(n % 10) + 1]>>

\* str(x) for a float x >= 0 of a whole number of tenths: 0.5 -> "0.5".
FloatStr(tenths) == IntStr(tenths \div 10) \o <<".">> \o IntStr(tenths % 10)

\* f"{v}".
Format(v) ==
    CASE v.type = "str" -> v.chars
      [] v.type = "int" -> IntStr(v.n)
      [] v.type = "float" -> FloatStr(v.n)

\* bool(v): the test of `if gym_id:` and `if period:`.
Truthy(v) ==
    CASE v.type = "str" -> v.chars # <<>>
      [] v.type = "int" -> v.n # 0
      [] v.type = "float" -> v.n # 0

\* The characters of the parameter names, in code point order.
NameAlphabet == <<"_", "a", "b", "c", "d", "e", "f", "g", "h", "i", "j", "k",
                  "l", "m", "n", "o", "p", "q", "r", "s", "t", "u", "v", "w",
                  "x", "y", "z">>

Ord(c) == CHOOSE i \in 1..Len(NameAlphabet) : NameAlphabet[i] = c

\* a < b for two Python strings.
RECURSIVE StrLt(_, _)
StrLt(a, b) ==
    IF b = <<>> THEN FALSE
    ELSE IF a = <<>> THEN TRUE
    ELSE IF a[1] # b[1] THEN Ord(a[1]) < Ord(b[1])
    ELSE StrLt(Tail(a), Tail(b))

\* sorted(kwargs.items()): the items in ascending order of their names
\* (the names of a dict are distinct).
RECURSIVE SortedItems(_)
SortedItems(items) ==
    IF items = <<>>
    THEN <<>>
    ELSE LET least == CHOOSE i \in 1..Len(items) :
                          \A j \in 1..Len(items) :
                              j # i => StrLt(items[i].name, items[j].name)
             rest == [j \in 1..(Len(items) - 1) |->
                          IF j < least THEN items[j] ELSE items[j + 1]]
         IN  <<items[least]>> \o SortedItems(rest)

\* "|".join(parts).
RECURSIVE JoinBar(_)
JoinBar(parts) ==
    IF parts = <<>> THEN <<>>
    ELSE IF Len(parts) = 1 THEN parts[1]
    ELSE parts[1] \o <<"|">> \o JoinBar(Tail(parts))

\* f"{label}:{v}".
Labelled(label, v) == label \o <<":">> \o Format(v)

\* cache_service.py:44-46.
RECURSIVE KwargKeyParts(_)
KwargKeyParts(items) ==
    IF items = <<>>
    THEN <<>>
    ELSE (IF Len(items[1].value) = 1
          THEN <<Labelled(items[1].name, items[1].value[1])>>
          ELSE <<>>)
         \o KwargKeyParts(Tail(items))

\* cache_service.py:33-48: key_string, the text that is hashed.
key_string(call) ==
    LET key_parts ==
            <<call.cache_type>>
            \o (IF Len(call.gym_id) = 1 /\ Truthy(call.gym_id[1])
                THEN <<Labelled(<<"g", "y", "m">>, call.gym_id[1])>> ELSE <<>>)
            \o (IF Len(call.days) = 1
                THEN <<Labelled(<<"d", "a", "y", "s">>, call.days[1])>> ELSE <<>>)
            \o (IF Len(call.period) = 1 /\ Truthy(call.period[1])
                THEN <<Labelled(<<"p", "e", "r", "i", "o", "d">>, call.period[1])>>
                ELSE <<>>)
            \o (IF Len(call.threshold) = 1
                THEN <<Labelled(<<"t", "h", "r", "e", "s", "h", "o", "l", "d">>,
                                call.threshold[1])>>
                ELSE <<>>)
            \o KwargKeyParts(SortedItems(call.kwargs))
    IN  JoinBar(key_parts)

\* Arguments of _generate_cache_key.
KeyCacheTypes == {<<"c", "h", "u", "r", "n">>, <<"c", "h", "a", "r", "t">>}

KeyGymIds == {<<>>,
              <<StrVal(<<>>)>>,
              <<StrVal(<<"g", "1">>)>>,
              <<StrVal(<<"g", "1", "|", "d", "a", "y", "s", ":", "7">>)>>}

KeyDays == {<<>>, <<IntVal(7)>>}

KeyPeriods == {<<>>, <<StrVal(<<>>)>>, <<StrVal(<<"d", "a", "y">>)>>}

KeyThresholds == {<<>>, <<FloatVal(5)>>}

LimitItem(value) == [name |-> <<"l", "i", "m", "i", "t">>, value |-> value]

OrderByItem(value) ==
    [name |-> <<"o", "r", "d", "e", "r", "_", "b", "y">>, value |-> value]

KeyKwargs ==
    {<<>>,
     <<LimitItem(<<>>)>>,
     <<LimitItem(<<IntVal(200)>>)>>,
     <<LimitItem(<<IntVal(200)>>), OrderByItem(<<StrVal(<<"d", "e", "s", "c">>)>>)>>,
     <<OrderByItem(<<StrVal(<<"d", "e", "s", "c">>)>>), LimitItem(<<IntVal(200)>>)>>}

KeyCalls ==
    [cache_type : KeyCacheTypes, gym_id : KeyGymIds, days : KeyDays,
     period : KeyPeriods, threshold : KeyThresholds, kwargs : KeyKwargs]

\* What ret records of the calls of _generate_cache_key made so far: the
\* arguments, the text each call hashed and the key each returned.
KeyRet(calls) ==
    [op |-> "_generate_cache_key", gym_id |-> "None", key |-> NoKey,
     fetched |-> FALSE, value |-> NoneValue,
     calls |-> calls,
     key_strings |-> [i \in 1..Len(calls) |-> key_string(calls[i])],
     keys |-> [i \in 1..Len(calls) |-> Md5(key_string(calls[i]))]]

\* A first call of _generate_cache_key.
GenerateFirstKey(call) ==
    /\ ret' = KeyRet(<<call>>)
    /\ UNCHANGED <<live_call_cache, liveVars, poolVars, db, clockVars>>

\* A second call, whose key is compared with the first one's.
GenerateSecondKey(call) ==
    /\ ret' = KeyRet(ret.calls \o <<call>>)
    /\ UNCHANGED <<live_call_cache, liveVars, poolVars, db, clockVars>>

KeysNext ==
    \/ /\ ret.op # "_generate_cache_key"
       /\ \E call \in KeyCalls : GenerateFirstKey(call)
    \/ /\ ret.op = "_generate_cache_key"
       /\ Len(ret.calls) = 1
       /\ \E call \in KeyCalls : GenerateSecondKey(call)

SpecKeys == LiveInit /\ [][KeysNext]_vars

(***************************************************************************)
(* AnomalyService.  Floats are exact fractions [num, den]; an Optional     *)
(* value is a sequence of length 0 (None) or 1.  Ratings are integers,     *)
(* confidence, churn and revenue scores are whole tenths (9 is 0.9), and   *)
(* avg_rating and std_rating are tenths of a rating point.                 *)
(***************************************************************************)
Frac(n, d) == [num |-> n, den |-> d]

Abs(n) == IF n < 0 THEN -n ELSE n

RECURSIVE GCD(_, _)
GCD(a, b) == IF b = 0 THEN a ELSE GCD(b, a % b)

\* The fraction in lowest terms (den > 0).
Reduced(f) ==
    LET g == GCD(Abs(f.num), f.den)
    IN  Frac(f.num \div g, f.den \div g)

FracAdd(a, b) ==
    LET g == GCD(a.den, b.den)
    IN  Reduced(Frac(a.num * (b.den \div g) + b.num * (a.den \div g),
                     (a.den \div g) * b.den))

FracMul(a, b) == Reduced(Frac(a.num * b.num, a.den * b.den))

\* a / b for b > 0.
FracDiv(a, b) == Reduced(Frac(a.num * b.den, a.den * b.num))

FracLe(a, b) == a.num * b.den <= b.num * a.den

FracMax(a, b) == IF FracLe(a, b) THEN b ELSE a

FracMin(a, b) == IF FracLe(a, b) THEN a ELSE b

RECURSIVE FracSum(_)
FracSum(fs) == IF fs = <<>> THEN Frac(0, 1) ELSE FracAdd(fs[1], FracSum(Tail(fs)))

RECURSIVE SumSeq(_)
SumSeq(xs) == IF xs = <<>> THEN 0 ELSE xs[1] + SumSeq(Tail(xs))

SquaresOf(xs) == [i \in 1..Len(xs) |-> xs[i] * xs[i]]

\* The fallback without the min(1.0, ...) of anomaly_service.py:329.
DeviationAnomalyUnbounded(value, average) ==
    LET deviation == IF value < average[1] THEN average[1] - value ELSE value - average[1]
    IN  IF Len(average) = 1 /\ deviation > 4
        THEN <<[num |-> deviation, den |-> 5]>>
        ELSE <<>>

\* 1 / (1 + np.exp(-x)) in thousandths at x = 0, 0.5, 1, ..., 4.
SigmoidSteps == <<500, 622, 731, 818, 881, 924, 953, 971, 982>>

\* 1 / (1 + np.exp(-max(0, z_score - threshold))) for z_score = sqrt(a / b)
\* and threshold = t20 / 20, evaluated on the grid of SigmoidSteps: the value
\* at the grid point at or below max(0, z_score - threshold).
SigmoidOfZ(a, b, t20) ==
    LET reached(k) == 400 * a >= (t20 + 10 * k) * (t20 + 10 * k) * b
        step == CHOOSE k \in 0..(Len(SigmoidSteps) - 1) :
                    /\ k = 0 \/ reached(k)
                    /\ \A j \in (k + 1)..(Len(SigmoidSteps) - 1) : ~reached(j)
    IN  Frac(SigmoidSteps[step + 1], 1000)

\* The non-None values of a field of the similar calls.
FieldValues(similar_calls, field) ==
    LET has(c) == Len(c[field]) = 1
        picked == SelectSeq(similar_calls, has)
    IN  [i \in 1..Len(picked) |-> picked[i][field][1]]

\* n * n * np.std(samples) ** 2 for n = len(samples).
ScaledVariance(samples) ==
    Len(samples) * SumSeq(SquaresOf(samples)) - SumSeq(samples) * SumSeq(samples)

\* The Z-score branch shared by the rating, confidence, churn and revenue
\* factors (anomaly_service.py:124-130): the sigmoid of the Z-score of value
\* among the samples, None when np.std(samples) is 0.
ZScoreAnomaly(value, samples, t20) ==
    LET n == Len(samples)
        dev == n * value - SumSeq(samples)
    IN  IF ScaledVariance(samples) > 0
        THEN <<SigmoidOfZ(dev * dev, ScaledVariance(samples), t20)>>
        ELSE <<>>

\* anomaly_service.py:104-147.
calculate_rating_anomaly(rating, historical_stats, similar_calls) ==
    LET similar_ratings == FieldValues(similar_calls, "rating")
        by_similar == IF Len(similar_ratings) >= 3
                      THEN ZScoreAnomaly(rating[1], similar_ratings, 27)
                      ELSE <<>>
        avg_rating == historical_stats.avg_rating
        std_rating == historical_stats.std_rating
        dev == 10 * rating[1] - avg_rating[1]
    IN  IF rating = <<>> THEN <<>>
        ELSE IF by_similar # <<>> THEN by_similar
        ELSE IF Len(avg_rating) = 1 /\ Len(std_rating) = 1 /\ std_rating[1] > 0
        THEN <<SigmoidOfZ(dev * dev, std_rating[1] * std_rating[1], 40)>>
        ELSE <<>>

\* anomaly_service.py:200-207.
has_rating_sentiment_conflict(rating, sentiment) ==
    IF rating >= 8 THEN sentiment # "positive"
    ELSE IF rating <= 4 THEN sentiment # "negative"
    ELSE sentiment \notin {"neutral", "positive"}

\* anomaly_service.py:159-165.
expected_sentiment(rating) ==
    IF rating >= 8 THEN "positive"
    ELSE IF rating <= 4 THEN "negative"
    ELSE "neutral"

\* anomaly_service.py:149-198.  conflict_rate < 0.2 is
\* 5 * conflicts_in_similar < len(similar_calls), and < 0.5 likewise.
calculate_sentiment_conflict(rating, sentiment, similar_calls) ==
    LET conflicting(c) ==
            /\ Len(c.rating) = 1
            /\ Len(c.sentiment) = 1
            /\ has_rating_sentiment_conflict(c.rating[1], c.sentiment[1])
        conflicts_in_similar == Len(SelectSeq(similar_calls, conflicting))
    IN  IF rating = <<>> \/ sentiment = <<>> THEN <<>>
        ELSE IF sentiment[1] # expected_sentiment(rating[1])
        THEN IF Len(similar_calls) > 0
             THEN IF 5 * conflicts_in_similar < Len(similar_calls)
                  THEN <<Frac(7, 10)>>
                  ELSE IF 2 * conflicts_in_similar < Len(similar_calls)
                  THEN <<Frac(4, 10)>>
                  ELSE <<Frac(2, 10)>>
             ELSE <<Frac(5, 10)>>
        ELSE <<Frac(0, 1)>>

\* str(p).lower().strip() for the pain points and opportunities of the model.
LowerStrip(p) ==
    CASE p = "Price " -> "price"
      [] p = " STAFF" -> "staff"
      [] OTHER -> p

\* set([str(p).lower().strip() for p in points if p]).
PointSet(points) == {LowerStrip(points[i]) : i \in {j \in 1..Len(points) : points[j] # ""}}

\* The points of all similar calls (anomaly_service.py:249-255).
AllSimilarPoints(similar_calls, field) ==
    UNION {PointSet(similar_calls[i][field]) : i \in 1..Len(similar_calls)}

\* similar_sentiments.count(sentiment).
CountOf(sentiment, similar_sentiments) ==
    Len(SelectSeq(similar_sentiments, LAMBDA x : x = sentiment))

\* The values max(set(similar_sentiments), key=similar_sentiments.count) can
\* return: the first most frequent sentiment in the iteration order of the
\* set, which is any of the most frequent ones.
MostCommonSentiments(similar_calls) ==
    LET similar_sentiments == FieldValues(similar_calls, "sentiment")
        seen == {similar_sentiments[i] : i \in 1..Len(similar_sentiments)}
    IN  IF seen = {}
        THEN {"None"}
        ELSE {x \in seen : \A y \in seen :
                 CountOf(y, similar_sentiments) <= CountOf(x, similar_sentiments)}

\* anomaly_service.py:242-261 and 266-285: the share of new points.
PointsDeviation(points, similar_calls, field) ==
    LET extracted == PointSet(points)
        all_similar == AllSimilarPoints(similar_calls, field)
    IN  IF Len(points) > 0 /\ all_similar # {} /\ extracted # {}
        THEN <<Frac(Cardinality(extracted \ all_similar), Cardinality(extracted))>>
        ELSE <<>>

\* anomaly_service.py:209-293.
calculate_pattern_deviation(extracted_insights, similar_calls, most_common_sentiment) ==
    LET similar_sentiments == FieldValues(similar_calls, "sentiment")
        extracted_sentiment == extracted_insights.sentiment
        sentiment_deviation ==
            IF /\ Len(extracted_sentiment) = 1
               /\ Len(similar_sentiments) > 0
               /\ extracted_sentiment[1] # most_common_sentiment
            THEN <<Frac(Len(similar_sentiments)
                          - CountOf(extracted_sentiment[1], similar_sentiments),
                        Len(similar_sentiments))>>
            ELSE <<>>
        deviations ==
            sentiment_deviation
            \o PointsDeviation(extracted_insights.pain_points, similar_calls, "pain_points")
            \o PointsDeviation(extracted_insights.opportunities, similar_calls,
                               "opportunities")
    IN  IF Len(similar_calls) < 2 THEN <<>>
        ELSE IF deviations # <<>>
        THEN <<FracDiv(FracSum(deviations), Frac(Len(deviations), 1))>>
        ELSE <<>>

\* The fallback shared by the confidence, churn and revenue factors
\* (anomaly_service.py:323-330): min(1.0, deviation / 0.5) when the value
\* is more than 0.4 from the historical average.
DeviationAnomaly(value, average) ==
    LET deviation == Abs(value - average[1])
    IN  IF Len(average) = 1 /\ deviation > 4
        THEN <<FracMin(Frac(1, 1), Reduced(Frac(deviation, 5)))>>
        ELSE <<>>

\* anomaly_service.py:295-334.
calculate_confidence_anomaly(confidence, historical_stats, similar_calls) ==
    LET similar_confidences == FieldValues(similar_calls, "confidence")
        by_similar == IF Len(similar_confidences) >= 2
                      THEN ZScoreAnomaly(confidence[1], similar_confidences, 27)
                      ELSE <<>>
    IN  IF confidence = <<>> THEN <<>>
        ELSE IF by_similar # <<>> THEN by_similar
        ELSE DeviationAnomaly(confidence[1], historical_stats.avg_confidence)

\* anomaly_service.py:336-378.
calculate_churn_score_anomaly(churn_score, historical_stats, similar_calls) ==
    LET similar_churn_scores == FieldValues(similar_calls, "churn_score")
        by_similar == IF Len(similar_churn_scores) >= 3
                      THEN ZScoreAnomaly(churn_score[1], similar_churn_scores, 27)
                      ELSE <<>>
    IN  IF churn_score = <<>> THEN <<>>
        ELSE IF by_similar # <<>> THEN by_similar
        ELSE DeviationAnomaly(churn_score[1], historical_stats.avg_churn_score)

\* anomaly_service.py:380-422.
calculate_revenue_score_anomaly(revenue_score, historical_stats, similar_calls) ==
    LET similar_revenue_scores == FieldValues(similar_calls, "revenue_interest_score")
        by_similar == IF Len(similar_revenue_scores) >= 3
                      THEN ZScoreAnomaly(revenue_score[1], similar_revenue_scores, 27)
                      ELSE <<>>
    IN  IF revenue_score = <<>> THEN <<>>
        ELSE IF by_similar # <<>> THEN by_similar
        ELSE DeviationAnomaly(revenue_score[1],
                              historical_stats.avg_revenue_interest_score)

\* One entry of anomaly_factors, or nothing when the factor is None.
Factor(name, score, weight) ==
    IF score = <<>> THEN <<>> ELSE <<[name |-> name, score |-> score[1], weight |-> weight]>>

\* anomaly_service.py:37-90.
anomaly_factors(extracted_insights, rag_context, most_common_sentiment) ==
    LET stats == rag_context.historical_stats
        similar == rag_context.similar_calls
    IN  Factor("rating",
               calculate_rating_anomaly(extracted_insights.gym_rating, stats, similar),
               Frac(2, 10))
        \o Factor("sentiment_conflict",
                  calculate_sentiment_conflict(extracted_insights.gym_rating,
                                               extracted_insights.sentiment, similar),
                  Frac(2, 10))
        \o Factor("pattern_deviation",
                  calculate_pattern_deviation(extracted_insights, similar,
                                              most_common_sentiment),
                  Frac(1, 10))
        \o Factor("confidence",
                  calculate_confidence_anomaly(extracted_insights.confidence, stats,
                                               similar),
                  Frac(1, 10))
        \o Factor("churn_score",
                  calculate_churn_score_anomaly(extracted_insights.churn_score, stats,
                                                similar),
                  Frac(2, 10))
        \o Factor("revenue_score",
                  calculate_revenue_score_anomaly(
                      extracted_insights.revenue_interest_score, stats, similar),
                  Frac(2, 10))

\* max(0.0, min(1.0, anomaly_score)), anomaly_service.py:102.
Clamp(anomaly_score) == FracMax(Frac(0, 1), FracMin(Frac(1, 1), anomaly_score))

\* The weighted sum of the factors without the division by total_weight.
weighted_sum_only(factors) ==
    IF factors = <<>>
    THEN Frac(0, 1)
    ELSE Clamp(FracSum([i \in 1..Len(factors) |->
                           FracMul(factors[i].score, factors[i].weight)]))

\* anomaly_service.py:92-102.
weighted_score(factors) ==
    LET total_weight == FracSum([i \in 1..Len(factors) |-> factors[i].weight])
        weighted_sum ==
            FracSum([i \in 1..Len(factors) |-> FracMul(factors[i].score, factors[i].weight)])
        anomaly_score == IF total_weight.num > 0
                         THEN FracDiv(weighted_sum, total_weight)
                         ELSE Frac(0, 1)
    IN  IF factors = <<>> THEN Frac(0, 1) ELSE Clamp(anomaly_score)

\* anomaly_service.py:20-102.
calculate_anomaly_score(extracted_insights, rag_context, most_common_sentiment) ==
    weighted_score(anomaly_factors(extracted_insights, rag_context, most_common_sentiment))

\* The most similar calls a context holds at most.
MaxSimilar == 3

\* extracted_insights of the model.
ExtractedInsights ==
    [gym_rating : {<<>>, <<3>>, <<6>>, <<9>>},
     sentiment : {<<>>, <<"positive">>, <<"negative">>},
     pain_points : {<<>>, <<"Price ">>, <<"price", "parking">>},
     opportunities : {<<>>, <<"classes">>},
     confidence : {<<>>, <<9>>},
     churn_score : {<<>>, <<9>>},
     revenue_interest_score : {<<>>, <<1>>}]

\* The records _retrieve_similar_calls builds (rag_service.py:240-251);
\* confidence is never None there.
SimilarCallKinds ==
    <<[rating |-> <<9>>, sentiment |-> <<"positive">>, confidence |-> <<9>>,
       pain_points |-> <<"price">>, opportunities |-> <<"classes">>,
       churn_score |-> <<1>>, revenue_interest_score |-> <<1>>],
      [rating |-> <<3>>, sentiment |-> <<"negative">>, confidence |-> <<3>>,
       pain_points |-> <<" STAFF">>, opportunities |-> <<>>,
       churn_score |-> <<9>>, revenue_interest_score |-> <<9>>],
      [rating |-> <<>>, sentiment |-> <<>>, confidence |-> <<0>>,
       pain_points |-> <<>>, opportunities |-> <<>>,
       churn_score |-> <<>>, revenue_interest_score |-> <<>>]>>

\* The lists of at most MaxSimilar similar calls, up to the order of the
\* calls, which no factor depends on.
SimilarCallLists ==
    LET kinds == 1..Len(SimilarCallKinds)
        ascending(ks) == \A i \in 1..(Len(ks) - 1) : ks[i] <= ks[i + 1]
        picks == UNION {[1..n -> kinds] : n \in 0..MaxSimilar}
    IN  {[i \in 1..Len(ks) |-> SimilarCallKinds[ks[i]]] : ks \in {p \in picks : ascending(p)}}

\* historical_stats: {} (rag_service.py:271), the statistics of a gym with one
\* rated insight (std_rating None, rag_service.py:276) and those of a gym
\* with several.
HistoricalStats ==
    {[avg_rating |-> <<>>, std_rating |-> <<>>, avg_confidence |-> <<>>,
      avg_churn_score |-> <<>>, avg_revenue_interest_score |-> <<>>],
     [avg_rating |-> <<70>>, std_rating |-> <<>>, avg_confidence |-> <<7>>,
      avg_churn_score |-> <<>>, avg_revenue_interest_score |-> <<6>>],
     [avg_rating |-> <<72>>, std_rating |-> <<12>>, avg_confidence |-> <<4>>,
      avg_churn_score |-> <<3>>, avg_revenue_interest_score |-> <<7>>]}

RagContexts == [similar_calls : SimilarCallLists, historical_stats : HistoricalStats]

\* One call of calculate_anomaly_score; ret records the inputs, the factors
\* and the score returned.
CalculateAnomalyScore(extracted_insights, rag_context) ==
    /\ \E most_common_sentiment \in MostCommonSentiments(rag_context.similar_calls) :
           LET factors == anomaly_factors(extracted_insights, rag_context,
                                          most_common_sentiment)
           IN  ret' = [op |-> "calculate_anomaly_score", gym_id |-> "g1", key |-> NoKey,
                       fetched |-> FALSE, value |-> NoneValue,
                       extracted_insights |-> extracted_insights,
                       rag_context |-> rag_context,
                       factors |-> factors,
                       score |-> weighted_score(factors)]
    /\ UNCHANGED <<live_call_cache, liveVars, poolVars, db, clockVars>>

\* One call is made, on any of the inputs.
AnomalyNext ==
    /\ ret.op # "calculate_anomaly_score"
    /\ \E extracted_insights \in ExtractedInsights, rag_context \in RagContexts :
           CalculateAnomalyScore(extracted_insights, rag_context)

SpecAnomaly == LiveInit /\ [][AnomalyNext]_vars

(***************************************************************************)
(* _calculate_sentiment_conflict on its own, over more ratings and         *)
(* sentiments than SpecAnomaly draws.                                      *)
(***************************************************************************)
ConflictRatings == {<<>>, <<4>>, <<6>>, <<8>>}

ConflictSentiments == {<<>>, <<"positive">>, <<"neutral">>, <<"negative">>}

\* A similar call with a rating and a sentiment, or with neither.
SimilarOf(rating, sentiment) ==
    [rating |-> rating, sentiment |-> sentiment, confidence |-> <<0>>,
     pain_points |-> <<>>, opportunities |-> <<>>,
     churn_score |-> <<>>, revenue_interest_score |-> <<>>]

ConflictKinds ==
    <<SimilarOf(<<6>>, <<"positive">>), SimilarOf(<<6>>, <<"negative">>),
      SimilarOf(<<8>>, <<"positive">>), SimilarOf(<<4>>, <<"positive">>),
      SimilarOf(<<>>, <<>>)>>

\* The lists of at most MaxSimilar similar calls, up to their order.
ConflictLists ==
    LET kinds == 1..Len(ConflictKinds)
        ascending(ks) == \A i \in 1..(Len(ks) - 1) : ks[i] <= ks[i + 1]
        picks == UNION {[1..n -> kinds] : n \in 0..MaxSimilar}
    IN  {[i \in 1..Len(ks) |-> ConflictKinds[ks[i]]] : ks \in {p \in picks : ascending(p)}}

\* One call of _calculate_sentiment_conflict; ret records the arguments and
\* the factor returned.
CalculateSentimentConflict(rating, sentiment, similar_calls) ==
    /\ ret' = [op |-> "_calculate_sentiment_conflict", gym_id |-> "g1", key |-> NoKey,
               fetched |-> FALSE, value |-> NoneValue,
               rating |-> rating, sentiment |-> sentiment,
               similar_calls |-> similar_calls,
               factor |-> calculate_sentiment_conflict(rating, sentiment, similar_calls)]
    /\ UNCHANGED <<live_call_cache, liveVars, poolVars, db, clockVars>>

\* One call is made, on any of the inputs.
ConflictNext ==
    /\ ret.op # "_calculate_sentiment_conflict"
    /\ \E rating \in ConflictRatings, sentiment \in ConflictSentiments,
          similar_calls \in ConflictLists :
           CalculateSentimentConflict(rating, sentiment, similar_calls)

SpecConflict == LiveInit /\ [][ConflictNext]_vars

(***************************************************************************)
(* RAGService.  An embedding is a sequence of integers, an Optional value  *)
(* a sequence of length 0 (None) or 1.  The database compares cosine       *)
(* distances exactly; _calculate_cosine_distance computes in binary        *)
(* floating point, every operation rounded to nearest (ties to even).      *)
(* np.float32 has a significand of 24 bits; the model rounds to FloatBits  *)
(* bits, which keeps the products within the integers of the checker and   *)
(* rounds to the same side as np.float32 on the embeddings of the model    *)
(* ([1,1] against [1,1] gives a cosine above 1 in both).                   *)
(***************************************************************************)
FloatBits == 6

RECURSIVE Pow2(_)
Pow2(n) == IF n = 0 THEN 1 ELSE 2 * Pow2(n - 1)

FracNeg(a) == Frac(-a.num, a.den)

FracSub(a, b) == FracAdd(a, FracNeg(b))

\* m * 2^e.
Scaled(m, e) == IF e >= 0 THEN Frac(m * Pow2(e), 1) ELSE Reduced(Frac(m, Pow2(-e)))

\* (num / den) * 2^e, for num, den > 0, rounded to FloatBits significant bits.
RECURSIVE RoundPositive(_, _, _)
RoundPositive(num, den, e) ==
    IF num \div den >= Pow2(FloatBits) THEN RoundPositive(num, 2 * den, e + 1)
    ELSE IF num \div den < Pow2(FloatBits - 1) THEN RoundPositive(2 * num, den, e - 1)
    ELSE LET m == num \div den
             twice == 2 * (num % den)
             up == twice > den \/ (twice = den /\ m % 2 = 1)
         IN  Scaled(IF up THEN m + 1 ELSE m, e)

\* The float nearest to x.
Fl(x) ==
    IF x.num = 0 THEN Frac(0, 1)
    ELSE IF x.num < 0 THEN FracNeg(RoundPositive(-x.num, x.den, 0))
    ELSE RoundPositive(x.num, x.den, 0)

\* sqrt(num / den) * 2^e rounded to FloatBits significant bits.
RECURSIVE SqrtPositive(_, _, _)
SqrtPositive(num, den, e) ==
    IF num \div den >= Pow2(2 * FloatBits) THEN SqrtPositive(num, 4 * den, e + 1)
    ELSE IF num \div den < Pow2(2 * FloatBits - 2) THEN SqrtPositive(4 * num, den, e - 1)
    ELSE LET m == CHOOSE k \in Pow2(FloatBits - 1)..(Pow2(FloatBits) - 1) :
                      k * k * den <= num /\ (k + 1) * (k + 1) * den > num
             up == (2 * m + 1) * (2 * m + 1) * den <= 4 * num
         IN  Scaled(IF up THEN m + 1 ELSE m, e)

\* The float nearest to sqrt(x), x >= 0.
FlSqrt(x) == IF x.num = 0 THEN Frac(0, 1) ELSE SqrtPositive(x.num, x.den, 0)

\* np.dot of two float vectors of equal length: products and sums rounded.
RECURSIVE FlDot(_, _)
FlDot(vec1, vec2) ==
    IF vec1 = <<>>
    THEN Frac(0, 1)
    ELSE Fl(FracAdd(FlDot(SubSeq(vec1, 1, Len(vec1) - 1), SubSeq(vec2, 1, Len(vec2) - 1)),
                    Fl(FracMul(vec1[Len(vec1)], vec2[Len(vec2)]))))

\* np.asarray(vec, dtype=np.float32).
AsFloats(vec) == [i \in 1..Len(vec) |-> Fl(Frac(vec[i], 1))]

\* rag_service.py:173-195.
calculate_cosine_distance(embedding1, embedding2) ==
    LET vec1 == AsFloats(embedding1)
        vec2 == AsFloats(embedding2)
        norm1 == FlSqrt(FlDot(vec1, vec1))
        norm2 == FlSqrt(FlDot(vec2, vec2))
        cosine_sim == Fl(FracDiv(FlDot(vec1, vec2), Fl(FracMul(norm1, norm2))))
    IN  IF norm1.num = 0 \/ norm2.num = 0
        THEN Frac(2, 1)
        ELSE Fl(FracSub(Frac(1, 1), cosine_sim))

\* max(0, 1 - (distance / 2)), rag_service.py:236 and 381 (in doubles, which
\* hold these values exactly).
similarity_of(distance) ==
    FracMax(Frac(0, 1), FracSub(Frac(1, 1), FracMul(distance, Frac(1, 2))))

\* The distance bound of the vector search in hundredths (0.85).
MaxDistancePercent == 85

\* The exact dot product of two embeddings.
RECURSIVE Dot(_, _)
Dot(a, b) == IF a = <<>> THEN 0 ELSE a[1] * b[1] + Dot(Tail(a), Tail(b))

\* cosine_distance(a, q) < 0.85 in the database: the cosine is above 0.15.
DistanceBelowMax(a, q) ==
    LET c == 100 - MaxDistancePercent
    IN  /\ Dot(a, q) > 0
        /\ 10000 * Dot(a, q) * Dot(a, q) > c * c * Dot(a, a) * Dot(q, q)

\* cosine_distance(a, q) <= cosine_distance(b, q) in the database.
NotFarther(a, b, q) ==
    Dot(a, q) * Abs(Dot(a, q)) * Dot(b, b) >= Dot(b, q) * Abs(Dot(b, q)) * Dot(a, a)

\* The rows of calls joined with their insights.
RagRow(call_id, gym_id, embedding, insight) ==
    [call_id |-> call_id, gym_id |-> gym_id, transcript_embedding |-> embedding,
     insight |-> insight]

InsightOf(confidence, gym_rating) ==
    [confidence |-> confidence, gym_rating |-> gym_rating]

\* The rows a database of the model is made of: near and far embeddings, a
\* row without an insight, one without an embedding, one of another gym.
RagRowPool ==
    {RagRow("c1", "g1", <<<<1, 1>>>>, <<InsightOf(9, 9)>>),
     RagRow("c2", "g1", <<<<2, 1>>>>, <<InsightOf(8, 3)>>),
     RagRow("c3", "g1", <<<<1, 0>>>>, <<>>),
     RagRow("c4", "g2", <<<<1, 1>>>>, <<InsightOf(9, 9)>>),
     RagRow("c5", "g1", <<>>, <<InsightOf(10, 6)>>),
     RagRow("c6", "g1", <<<<2, 2>>>>, <<InsightOf(9, 6)>>),
     RagRow("c7", "g1", <<<<-1, -1>>>>, <<InsightOf(2, 3)>>)}

\* The rows the vector search filters in (rag_service.py:206-210).
SimilarMatches(rows, embedding, gym_id) ==
    {r \in rows : /\ Len(r.transcript_embedding) = 1
                  /\ r.gym_id = gym_id
                  /\ DistanceBelowMax(r.transcript_embedding[1], embedding)}

\* The orders ORDER BY cosine_distance can return the rows in: rows at equal
\* distance come in any order.
RECURSIVE ByDistance(_, _)
ByDistance(rows, embedding) ==
    IF rows = {}
    THEN {<<>>}
    ELSE LET nearest == {r \in rows : \A o \in rows :
                            NotFarther(r.transcript_embedding[1],
                                       o.transcript_embedding[1], embedding)}
         IN  UNION {{<<r>> \o rest : rest \in ByDistance(rows \ {r}, embedding)} :
                       r \in nearest}

\* The orders ORDER BY confidence DESC can return the rows in.
RECURSIVE ByConfidence(_)
ByConfidence(rows) ==
    IF rows = {}
    THEN {<<>>}
    ELSE LET best == {r \in rows : \A o \in rows :
                         o.insight[1].confidence <= r.insight[1].confidence}
         IN  UNION {{<<r>> \o rest : rest \in ByConfidence(rows \ {r})} : r \in best}

\* seq[:n].
Prefix(seq, n) == SubSeq(seq, 1, Min(n, Len(seq)))

\* The outcome of a block of code: it raised, or it returned a value.
Raised == [raised |-> TRUE]

Returned(value) == [raised |-> FALSE, value |-> value]

\* A block whose exception nothing catches.
TryNothing(outcome, default) == outcome

\* try: ... except Exception: return default.
Try(outcome, default) == IF outcome.raised THEN Returned(default) ELSE outcome

\* search_service.py:38-56: the embedding, or None for an empty text and
\* when the model raises.
generate_embedding(generated) == generated

\* rag_service.py:197-257.  calls is the result of the query, one of
\* ByDistance(...) cut at top_k.
retrieve_similar_calls(calls, transcript_embedding, fails) ==
    LET with_insight == SelectSeq(calls, LAMBDA call : Len(call.insight) = 1)
        similar_calls ==
            [i \in 1..Len(with_insight) |->
                [call_id |-> with_insight[i].call_id,
                 rating |-> with_insight[i].insight[1].gym_rating,
                 confidence |-> with_insight[i].insight[1].confidence,
                 similarity_score |->
                     similarity_of(calculate_cosine_distance(
                         with_insight[i].transcript_embedding[1], transcript_embedding))]]
    IN  Try(IF "similar" \in fails THEN Raised ELSE Returned(similar_calls), <<>>)

\* The insights _retrieve_historical_stats reads (rag_service.py:263-266):
\* confidence >= 0.3.
StatsRows(rows, gym_id) ==
    {r \in rows : /\ r.gym_id = gym_id
                  /\ Len(r.insight) = 1
                  /\ r.insight[1].confidence >= 3}

\* The sum of a field of the insights of the rows.
RECURSIVE SumOver(_, _)
SumOver(rows, field) ==
    IF rows = {}
    THEN 0
    ELSE LET r == CHOOSE x \in rows : TRUE
         IN  r.insight[1][field] + SumOver(rows \ {r}, field)

\* rag_service.py:259-336; {} is <<>>.  Of the statistics the model keeps
\* avg_rating, avg_confidence (in tenths) and total_calls.
retrieve_historical_stats(rows, gym_id, fails) ==
    LET insights == StatsRows(rows, gym_id)
        stats == [avg_rating |-> Reduced(Frac(SumOver(insights, "gym_rating"),
                                              Cardinality(insights))),
                  avg_confidence |-> Reduced(Frac(SumOver(insights, "confidence"),
                                                  Cardinality(insights))),
                  total_calls |-> Cardinality(insights)]
    IN  Try(IF "stats" \in fails THEN Raised
            ELSE IF insights = {} THEN Returned(<<>>) ELSE Returned(<<stats>>),
            <<>>)

\* The number of examples _retrieve_high_quality_examples returns at most.
ExamplesLimit == 3

\* The rows of the examples query (rag_service.py:347-352): confidence >= 0.8.
ExampleMatches(rows, gym_id) ==
    {r \in rows : /\ r.gym_id = gym_id
                  /\ Len(r.insight) = 1
                  /\ r.insight[1].confidence >= 8
                  /\ Len(r.transcript_embedding) = 1}

\* list.sort(key=similarity, reverse=True): stable, so examples of equal
\* similarity keep their order.
RECURSIVE SortBySimilarity(_)
SortBySimilarity(examples) ==
    IF examples = <<>>
    THEN <<>>
    ELSE LET first == CHOOSE i \in 1..Len(examples) :
                          /\ \A j \in 1..Len(examples) :
                                 FracLe(examples[j].similarity, examples[i].similarity)
                          /\ \A j \in 1..(i - 1) :
                                 examples[j].similarity # examples[i].similarity
             rest == [j \in 1..(Len(examples) - 1) |->
                          IF j < first THEN examples[j] ELSE examples[j + 1]]
         IN  <<examples[first]>> \o SortBySimilarity(rest)

\* rag_service.py:338-407.  results is the result of the query, one of
\* ByConfidence(...) cut at limit * 2; transcript_embedding is Optional.
retrieve_high_quality_examples(results, transcript_embedding, fails) ==
    LET plain == [i \in 1..Len(results) |->
                     [call_id |-> results[i].call_id,
                      rating |-> results[i].insight[1].gym_rating,
                      confidence |-> results[i].insight[1].confidence]]
        examples_with_similarity ==
            [i \in 1..Len(results) |->
                [call_id |-> results[i].call_id,
                 rating |-> results[i].insight[1].gym_rating,
                 confidence |-> results[i].insight[1].confidence,
                 similarity |->
                     similarity_of(calculate_cosine_distance(
                         results[i].transcript_embedding[1], transcript_embedding[1]))]]
        examples ==
            IF transcript_embedding = <<>> \/ transcript_embedding[1] = <<>>
                   \/ results = <<>>
            THEN Prefix(plain, ExamplesLimit)
            ELSE Prefix(SortBySimilarity(examples_with_similarity), ExamplesLimit)
    IN  Try(IF "examples" \in fails THEN Raised ELSE Returned(examples), <<>>)

\* rag_service.py:131-171.  The context, or Raised when an exception left a
\* step.
retrieve_context(calls, results, rows, gym_id, supplied, generated, fails) ==
    LET transcript_embedding ==
            IF supplied = <<>> THEN generate_embedding(generated) ELSE supplied
        similar_calls ==
            IF transcript_embedding # <<>> /\ transcript_embedding[1] # <<>>
            THEN retrieve_similar_calls(calls, transcript_embedding[1], fails)
            ELSE Returned(<<>>)
        historical_stats == retrieve_historical_stats(rows, gym_id, fails)
        high_quality_examples ==
            retrieve_high_quality_examples(results, transcript_embedding, fails)
    IN  IF similar_calls.raised \/ historical_stats.raised \/ high_quality_examples.raised
        THEN Raised
        ELSE [raised |-> FALSE,
              similar_calls |-> similar_calls.value,
              historical_stats |-> historical_stats.value,
              high_quality_examples |-> high_quality_examples.value,
              gym_id |-> gym_id]

\* The largest top_k of the model.
MaxTopK == 3

\* The embedding arguments and what generate_embedding returns when it is
\* called: none supplied and none generated, none supplied and one
\* generated, one supplied, the empty list supplied.
EmbeddingInputs ==
    {<<<<>>, <<>>>>, <<<<>>, <<<<1, 1>>>>>>, <<<<<<1, 1>>>>, <<>>>>,
     <<<<<<1, 0>>>>, <<>>>>, <<<<<<>>>>, <<>>>>}

\* The embedding the queries of a call use, Optional.
UsedEmbedding(input) == IF input[1] = <<>> THEN input[2] ELSE input[1]

\* The databases of the model: one with rows of another gym only, and those
\* with "c1", "c4", "c5", "c7" and any of "c2", "c3", "c6".
RagDatabases ==
    LET always == {r \in RagRowPool : r.call_id \in {"c1", "c4", "c5", "c7"}}
        sometimes == {r \in RagRowPool : r.call_id \in {"c2", "c3", "c6"}}
    IN  {{r \in RagRowPool : r.gym_id = "g2"}}
            \cup {always \cup more : more \in SUBSET sometimes}

\* One call of retrieve_context; ret records the arguments, the rows the two
\* queries returned and the context.
RetrieveContext(rows, top_k, input, fails) ==
    LET used == UsedEmbedding(input)
        searched == used # <<>> /\ used[1] # <<>>
    IN  /\ \E calls \in (IF searched
                         THEN ByDistance(SimilarMatches(rows, used[1], "g1"), used[1])
                         ELSE {<<>>}),
              results \in ByConfidence(ExampleMatches(rows, "g1")) :
               ret' = [op |-> "retrieve_context", gym_id |-> "g1", key |-> NoKey,
                       fetched |-> FALSE, value |-> NoneValue,
                       rows |-> rows, top_k |-> top_k,
                       supplied |-> input[1], generated |-> input[2],
                       fails |-> fails,
                       calls |-> Prefix(calls, top_k),
                       results |-> Prefix(results, ExamplesLimit * 2),
                       context |-> retrieve_context(Prefix(calls, top_k),
                                                    Prefix(results, ExamplesLimit * 2),
                                                    rows, "g1", input[1], input[2], fails)]
        /\ UNCHANGED <<live_call_cache, liveVars, poolVars, db, clockVars>>

\* One call is made, on any of the inputs.
RagNext ==
    /\ ret.op # "retrieve_context"
    /\ \E rows \in RagDatabases, top_k \in 1..MaxTopK, input \in EmbeddingInputs,
          fails \in SUBSET {"similar", "stats", "examples"} :
           RetrieveContext(rows, top_k, input, fails)

SpecRag == LiveInit /\ [][RagNext]_vars

(***************************************************************************)
(* InsightService.analyze_and_store_insights with its collaborators: the   *)
(* lookup of the call, RAGService.retrieve_context, the prompt text of the *)
(* context, AIService.extract_insights, the commit and the invalidations.  *)
(* The text of the prompt is the sequence of its lines.  The only await of *)
(* the coroutine is the extraction; the steps that change the database or  *)
(* a pool come after it and run without interruption.                      *)
(***************************************************************************)
PromptLine(kind, of) == [kind |-> kind, of |-> of]

\* rag_service.py:24-122: RAGContext.to_prompt_context.  A section is there
\* when its part of the context is non-empty; it lists the first 5 similar
\* calls and the first 3 examples.
to_prompt_context(context) ==
    LET similar == Prefix(context.similar_calls, 5)
        examples == Prefix(context.high_quality_examples, 3)
    IN  (IF context.similar_calls # <<>>
         THEN <<PromptLine("header", "SIMILAR PAST CALLS:")>>
              \o [i \in 1..Len(similar) |-> PromptLine("call", similar[i].call_id)]
              \o <<PromptLine("blank", "")>>
         ELSE <<>>)
        \o (IF context.historical_stats # <<>>
            THEN <<PromptLine("header", "GYM HISTORICAL BENCHMARKS:"),
                   PromptLine("stat", "Average Rating"),
                   PromptLine("blank", "")>>
            ELSE <<>>)
        \o (IF context.high_quality_examples # <<>>
            THEN <<PromptLine("header", "HIGH-QUALITY REFERENCE EXAMPLES:")>>
                 \o [i \in 1..Len(examples) |-> PromptLine("example", examples[i].call_id)]
                 \o <<PromptLine("blank", "")>>
            ELSE <<>>)

\* A call of retrieve_context with no try around it.
unguarded_retrieve_context(outcome) ==
    IF outcome.raised THEN Raised ELSE Returned(<<outcome>>)

\* insight_service.py:65-72: rag_context stays None when the call has no gym
\* and when retrieve_context raises.
guarded_retrieve_context(outcome) ==
    IF outcome.raised THEN Returned(<<>>) ELSE Returned(<<outcome>>)

\* insight_service.py:78: rag_context.to_prompt_context() if rag_context else "".
rag_context_str(rag_context) ==
    IF rag_context = <<>> THEN <<>> ELSE to_prompt_context(rag_context[1])

\* The four invalidations of insight_service.py:143-148, in their order.
Invalidations ==
    <<"invalidate_trend_cache", "invalidate_dashboard_cache",
      "invalidate_chart_calls_cache", "invalidate_bulk_insights_cache">>

\* A store that invalidates before it commits.
store_steps_invalidating_first(committed) ==
    Invalidations
        \o (IF committed
            THEN <<"commit", "refresh", "return">>
            ELSE <<"commit", "rollback", "raise">>)

\* insight_service.py:93-150, either branch: commit and refresh, then the
\* invalidations and the return; rollback and raise when the commit fails.
store_steps(committed) ==
    IF committed
    THEN <<"commit", "refresh">> \o Invalidations \o <<"return">>
    ELSE <<"commit", "rollback", "raise">>

\* The pools as one record.
Pools(trend, dashboard, bulk, chart) ==
    [trend |-> trend, dashboard |-> dashboard, bulk |-> bulk, chart |-> chart]

\* What a step of the handler does to the pools.
StepOnPools(pools, step, gym_id) ==
    CASE step = "invalidate_trend_cache"
            -> [pools EXCEPT !.trend = invalidate_trend_cache(@, "None", gym_id)]
      [] step = "invalidate_dashboard_cache"
            -> [pools EXCEPT !.dashboard = invalidate_dashboard_cache(@, gym_id)]
      [] step = "invalidate_chart_calls_cache"
            -> [pools EXCEPT !.chart = invalidate_chart_calls_cache(@, gym_id)]
      [] step = "invalidate_bulk_insights_cache"
            -> [pools EXCEPT !.bulk = invalidate_bulk_insights_cache(@, <<>>)]
      [] OTHER -> pools

\* The pools after the steps up to the one that leaves the handler.
RECURSIVE RunSteps(_, _, _)
RunSteps(pools, steps, gym_id) ==
    IF steps = <<>> \/ Head(steps) \in {"raise", "return"}
    THEN pools
    ELSE RunSteps(StepOnPools(pools, Head(steps), gym_id), Tail(steps), gym_id)

\* insight_service.py:46-150.  rag is the outcome of retrieve_context,
\* extracted whether extract_insights returned, committed whether the commit
\* succeeded.
analyze_steps(call_id, rag, extracted, committed) ==
    LET gym_id == CallGym(call_id)
        retrieved == IF gym_id # "None"
                     THEN guarded_retrieve_context(rag)
                     ELSE Returned(<<>>)
        before == <<"query_call">>
                  \o (IF gym_id # "None" THEN <<"retrieve_context">> ELSE <<>>)
    IN  IF retrieved.raised
        THEN [steps |-> before \o <<"raise">>, prompt |-> <<>>]
        ELSE [steps |-> before \o <<"extract_insights">>
                        \o (IF extracted
                            THEN <<"query_insight">> \o store_steps(committed)
                            ELSE <<"raise">>),
              prompt |-> <<rag_context_str(retrieved.value)>>]

\* top_k of the call of retrieve_context in insight_service.py:68.
AnalysisTopK == 8

\* One call of analyze_and_store_insights.  ret records the arguments, the
\* outcomes of the collaborators, the steps taken, the prompt text handed to
\* extract_insights (Optional) and whether the call raised.
AnalyzeAndStoreInsights(call_id, rows, input, rag_raises, fails, extracted, committed) ==
    LET gym_id == CallGym(call_id)
        used == UsedEmbedding(input)
        searched == used # <<>> /\ used[1] # <<>>
        pools == Pools(trend_cache, dashboard_cache, bulk_insights_cache,
                       chart_calls_cache)
    IN  /\ SumWrites(db, Calls) < MaxWrites
        /\ \E calls \in (IF searched
                         THEN ByDistance(SimilarMatches(rows, used[1], gym_id), used[1])
                         ELSE {<<>>}),
              results \in ByConfidence(ExampleMatches(rows, gym_id)) :
             \E rag \in {IF rag_raises
                         THEN Raised
                         ELSE retrieve_context(Prefix(calls, AnalysisTopK),
                                               Prefix(results, ExamplesLimit * 2),
                                               rows, gym_id, input[1], input[2], fails)} :
               \E run \in {analyze_steps(call_id, rag, extracted, committed)} :
                 LET after == RunSteps(pools, run.steps, gym_id)
                     stored == \E i \in 1..Len(run.steps) :
                                   run.steps[i] = "commit" /\ run.steps[i + 1] = "refresh"
                 IN  /\ trend_cache' = after.trend
                     /\ dashboard_cache' = after.dashboard
                     /\ bulk_insights_cache' = after.bulk
                     /\ chart_calls_cache' = after.chart
                     /\ db' = IF stored THEN [db EXCEPT ![call_id] = @ + 1] ELSE db
                     /\ ret' = [op |-> "analyze_and_store_insights", gym_id |-> gym_id,
                                key |-> NoKey, fetched |-> FALSE, value |-> NoneValue,
                                call_id |-> call_id, rag_raises |-> rag_raises,
                                supplied |-> input[1], generated |-> input[2],
                                fails |-> fails, extracted |-> extracted,
                                committed |-> committed,
                                steps |-> run.steps, prompt |-> run.prompt,
                                raised |-> run.steps[Len(run.steps)] = "raise",
                                stored |-> stored]
        /\ UNCHANGED <<live_call_cache, liveVars, clockVars>>

\* The databases and embeddings of the analyses: a gym without rows and one
\* with rows; no embedding supplied and none generated, one generated, one
\* supplied.
InsightDatabases ==
    {{r \in RagRowPool : r.gym_id = "g2"},
     {r \in RagRowPool : r.call_id \in {"c1", "c2", "c4", "c5", "c7"}}}

InsightEmbeddings ==
    {<<<<>>, <<>>>>, <<<<>>, <<<<1, 1>>>>>>, <<<<<<1, 0>>>>, <<>>>>}

\* The reads that fill the pools before and after an analysis.
InsightGets ==
    /\ \/ get_trend_data("churn", "g1", "day", Data(GymVersion(db, "g1")))
       \/ get_dashboard_summary("g1", "0.8", "0.8", Data(GymVersion(db, "g1")))
       \/ get_chart_calls("g1", "2025-01-01", "2025-01-31", 200,
                          Data(GymVersion(db, "g1")))
       \/ get_bulk_insights(<<"c1">>, Data(IdsVersion(db, <<"c1">>)))
    /\ UNCHANGED <<liveVars, clockVars>>

InsightNext ==
    \/ InsightGets
    \/ /\ ret.op # "analyze_and_store_insights"
       /\ \E call_id \in Calls, rows \in InsightDatabases, input \in InsightEmbeddings,
             rag_raises \in BOOLEAN, extracted \in BOOLEAN, committed \in BOOLEAN :
              \E fails \in (IF rag_raises
                            THEN {{}}
                            ELSE SUBSET {"similar", "stats", "examples"}) :
                  AnalyzeAndStoreInsights(call_id, rows, input, rag_raises, fails,
                                          extracted, committed)

SpecInsight == LiveInit /\ [][InsightNext]_vars

(***************************************************************************)
(* GET /calls.  The calls of gym g1 inside the window of the chart         *)
(* requests, newest first, with the columns get_calls filters on; scores   *)
(* are in hundredths.                                                      *)
(***************************************************************************)
ListedCalls ==
    << [call_id |-> "c1", status |-> "completed", insight |-> TRUE,
        sentiment |-> "positive", pain_points |-> {},
        opportunities |-> {"classes"}, revenue_interest_score |-> 80],
       [call_id |-> "c2", status |-> "completed", insight |-> TRUE,
        sentiment |-> "negative", pain_points |-> {"price"},
        opportunities |-> {}, revenue_interest_score |-> 20],
       [call_id |-> "c3", status |-> "failed", insight |-> FALSE,
        sentiment |-> "None", pain_points |-> {},
        opportunities |-> {}, revenue_interest_score |-> 0] >>

CallsValue(calls, total) == [kind |-> "calls", calls |-> calls, total |-> total]

\* call_service.py:173-405 with churn_min_score, revenue_min_score, order_by
\* and fields None: the page of matching calls and the total count.  The
\* count queries leave the status filter out, and the one of skip = 0 and
\* limit <= 200 the revenue_interest filter as well.
get_calls(rows, status, sentiment, pain_point, opportunity, revenue_interest, limit, skip) ==
    LET needs_join == \/ sentiment # "None"
                      \/ pain_point # "None"
                      \/ opportunity # "None"
                      \/ revenue_interest # "None"
        joined(row) ==
            needs_join =>
                /\ row.insight
                /\ sentiment # "None" => row.sentiment = sentiment
                /\ pain_point # "None" => pain_point \in row.pain_points
                /\ opportunity # "None" => opportunity \in row.opportunities
        interested(row) ==
            /\ revenue_interest = "true" => row.revenue_interest_score >= 75
            /\ revenue_interest = "false" => row.revenue_interest_score < 75
        selected(row) ==
            /\ status # "None" => row.status = status
            /\ joined(row)
            /\ interested(row)
        counted(row) ==
            /\ joined(row)
            /\ ~(skip = 0 /\ limit <= 200) => interested(row)
        query == SelectSeq(rows, selected)
        last == IF skip + limit < Len(query) THEN skip + limit ELSE Len(query)
        calls == SubSeq(query, skip + 1, last)
    IN  CallsValue([i \in 1..Len(calls) |-> calls[i].call_id],
                   Len(SelectSeq(rows, counted)))

\* cache_service.py:330-443 with all the filter parameters, as a function of
\* the pool: the pool afterwards, the key, whether fetch_func was called and
\* the value returned.  fetch_func is list_calls' fetch_chart_data, which
\* hands the parameters it is called with to get_calls (calls.py:106-109).
get_chart_calls_filtered(cache, rows, gym_id, status, sentiment, pain_point, opportunity, revenue_interest, start_date, end_date, limit) ==
    LET data == get_calls(rows, status, sentiment, pain_point, opportunity,
                          revenue_interest, limit, 0)
        cache_key ==
            generate_cache_key(<<"chart", "calls">>, gym_id, "None", "None", "None",
                [k \in {"status", "sentiment", "pain_point", "opportunity",
                        "revenue_interest", "start_date", "end_date", "limit"} |->
                    CASE k = "status" -> status
                      [] k = "sentiment" -> sentiment
                      [] k = "pain_point" -> pain_point
                      [] k = "opportunity" -> opportunity
                      [] k = "revenue_interest" -> revenue_interest
                      [] k = "start_date" -> start_date
                      [] k = "end_date" -> end_date
                      [] k = "limit" -> ToString(limit)])
        r == get_or_fetch(cache, cache_key, data)
    IN  IF ~is_chart_query(start_date, end_date, limit)
        THEN [cache |-> cache, key |-> NoKey, fetched |-> TRUE, value |-> data]
        ELSE [cache |-> r.cache, key |-> cache_key, fetched |-> r.fetched,
              value |-> r.value]

\* calls.py:94-100.
ServedThroughChartCache(request) ==
    /\ request.start_date # "None"
    /\ request.end_date # "None"
    /\ request.skip = 0
    /\ request.limit <= 200

\* calls.py:50-164: GET /calls.  A chart query goes through get_chart_calls
\* with gym_id, the dates and the limit (calls.py:111-120); any other query
\* is fetched with all the filters of the request (calls.py:142-157).
list_calls(request) ==
    LET r == get_chart_calls_filtered(chart_calls_cache, ListedCalls, request.gym_id,
                                      "None", "None", "None", "None", "None",
                                      request.start_date, request.end_date,
                                      request.limit)
        direct == get_calls(ListedCalls, request.status, request.sentiment,
                            request.pain_point, request.opportunity,
                            request.revenue_interest, request.limit, request.skip)
    IN  /\ IF ServedThroughChartCache(request)
           THEN /\ chart_calls_cache' = r.cache
                /\ ret' = [op |-> "list_calls", gym_id |-> request.gym_id,
                           key |-> r.key, fetched |-> r.fetched, value |-> r.value,
                           request |-> request]
           ELSE /\ chart_calls_cache' = chart_calls_cache
                /\ ret' = [op |-> "list_calls", gym_id |-> request.gym_id,
                           key |-> NoKey, fetched |-> TRUE, value |-> direct,
                           request |-> request]
        /\ UNCHANGED <<trend_cache, dashboard_cache, bulk_insights_cache, db,
                       live_call_cache, liveVars, clockVars>>

\* The query strings of GET /calls: limit is validated to 1..200.
ListRequests ==
    [gym_id : {"g1"},
     status : {"None", "completed", "failed"},
     sentiment : {"None", "positive"},
     pain_point : {"None", "price"},
     opportunity : {"None", "classes"},
     revenue_interest : {"None", "true", "false"},
     start_date : {"None", "2025-01-01"},
     end_date : {"None", "2025-01-31"},
     limit : {1, 200},
     skip : {0, 1}]

ListCallsNext ==
    \/ \E request \in ListRequests : list_calls(request)
    \/ InvalidateChartCalls("g1") /\ UNCHANGED <<liveVars, clockVars>>

SpecListCalls == LiveInit /\ [][ListCallsNext]_vars

(***************************************************************************)
(* Properties of the live-call system.                                     *)
(***************************************************************************)
Last(seq) == seq[Len(seq)]

Analyzing(t, c) ==
    {w \in 1..Len(t) : t[w].pc = "analyzing" /\ t[w].item[1].call_id = c}

\* C3: once invalidate_live_call_cache(c) has run and no turn event for c has
\* arrived since, c has no live state after any step (so the worker wrote
\* none, and an analysis that was in flight discarded its result), and no
\* step starts an analysis for c (an item for c dequeued then is skipped).
C3_NoLiveStateAfterInvalidation ==
    [][\A c \in Calls :
          completed'[c] =>
              /\ ~HasLiveCall(live_call_cache', c)
              /\ Analyzing(tasks', c) \subseteq Analyzing(tasks, c)]_vars

\* An analysis of c1 that was in flight when c1 completed has been discarded.
C3_Witness ==
    /\ ev = Event("worker", "c1", "discard")
    /\ completed["c1"]

\* C4: the worker takes the items in the order in which they were enqueued,
\* over all calls together, and at most one analysis is in flight.
C4_FifoOneInFlight ==
    /\ \A i \in 1..Len(deq_log) : deq_log[i] = i
    /\ Cardinality({w \in 1..Len(tasks) : tasks[w].pc = "analyzing"}) <= 1
    /\ \A w \in 1..Len(tasks) :
          tasks[w].pc = "analyzing" => tasks[w].item[1].seq = Len(deq_log)

\* The second item, of another call than the first, is being analysed.
C4_Witness ==
    /\ Len(deq_log) = 2
    /\ \E w \in 1..Len(tasks) :
          /\ tasks[w].pc = "analyzing"
          /\ tasks[w].item[1].call_id = "c2"
    /\ HasLiveCall(live_call_cache, "c1")

\* C5: the previous sentiment, churn score and revenue score passed to an
\* analysis of c are those the most recent stored analysis of c wrote (None
\* when none was stored since c's live state was created).
C5_PreviousScoresAreLastStored ==
    \A w \in 1..Len(tasks) :
        tasks[w].pc = "analyzing" =>
            tasks[w].previous[1] = last_stored[tasks[w].item[1].call_id]

\* C6: a worker write keeps every field of the cached LiveCall but sentiment,
\* churn_score, revenue_interest_score and confidence; the conversation is the
\* one that was in the cache just before the write.
C6_WorkerWritesScoresOnly ==
    [][(ev'.kind = "worker" /\ ev'.status = "store") =>
          LET c == ev'.call_id
          IN  /\ HasLiveCall(live_call_cache, c)
              /\ HasLiveCall(live_call_cache', c)
              /\ live_call_cache'[c].conversation = live_call_cache[c].conversation
              /\ live_call_cache'[c].call_id = live_call_cache[c].call_id
              /\ live_call_cache'[c].phone_number = live_call_cache[c].phone_number
              /\ live_call_cache'[c].call_initiated_timestamp
                    = live_call_cache[c].call_initiated_timestamp
              /\ \A k \in Calls \ {c} :
                    /\ HasLiveCall(live_call_cache', k) = HasLiveCall(live_call_cache, k)
                    /\ HasLiveCall(live_call_cache, k)
                          => live_call_cache'[k] = live_call_cache[k]]_vars

\* The analysis of c1's first item was stored when c1's conversation had
\* already grown to two turns, the second still waiting in the queue.
C6_Witness ==
    /\ ev = Event("worker", "c1", "store")
    /\ Len(deq_log) = 1
    /\ HasLiveCall(live_call_cache, "c1")
    /\ Len(live_call_cache["c1"].conversation) = 2
    /\ live_call_cache["c1"].sentiment # "None"

\* C7: no exception ends the processor task, and every item that was put on
\* the queue is eventually taken from it.
C7_WorkerSurvivesAndDrains ==
    /\ [](\A w \in 1..Len(tasks) : tasks[w].pc # "done")
    /\ \A n \in 1..MaxTurns : (n_enqueued >= n) ~> (Len(deq_log) >= n)

\* The analysis of an item raised and another item is waiting behind it.
C7_Witness ==
    /\ ev.kind = "worker" /\ ev.status = "exception"
    /\ \E w \in 1..Len(tasks) : tasks[w].pc = "sleep"
    /\ live_call_queue.items # <<>>

\* C8: a turn event that stores live state puts exactly one item on the queue,
\* behind the items already there, carrying the call id and the LiveCall it
\* has just stored.
C8_TurnEnqueuesStoredState ==
    [][(n_turns' = n_turns + 1) =>
          LET c == ev'.call_id
              old == live_call_queue.items
              new == live_call_queue'.items
          IN  /\ ev'.kind = "turn"
              /\ live_call_queue'.exists
              /\ Len(new) = Len(old) + 1
              /\ SubSeq(new, 1, Len(old)) = old
              /\ Last(new).call_id = c
              /\ HasLiveCall(live_call_cache', c)
              /\ Last(new).live_call = live_call_cache'[c]
              /\ n_enqueued' = n_enqueued + 1]_vars

\* Two turns of c1 wait in the queue, the second with the replaced turn.
C8_Witness ==
    /\ ev = Event("turn", "c1", "ok")
    /\ Len(live_call_queue.items) = 2
    /\ live_call_queue.items[1].live_call # live_call_queue.items[2].live_call
    /\ Len(live_call_queue.items[2].live_call.conversation) = 1

\* C9: after process_final_webhook has handled the completion of c, c has no
\* live state.
C9_NoLiveStateAfterFinalWebhook ==
    ev.kind = "final" => ~HasLiveCall(live_call_cache, ev.call_id)

\* The completion of c2, which has no row in the database, was handled while
\* the item of c2's only turn still waits in the queue.
C9_Witness ==
    /\ ev = Event("final", "c2", "handled")
    /\ n_turns = 1
    /\ live_call_queue.items # <<>>
    /\ live_call_queue.items[1].call_id = "c2"
    /\ live_call_cache = <<>>

\* The claim's similarity: Jaccard similarity of the character sets of the
\* two lower-cased prefixes of length min(50, len(last), len(new)) >= 0.7.
PrefixJaccardAtLeastThreshold(last, new) ==
    LET n == Min(PrefixLength, Min(Len(last), Len(new)))
        a == CharSet(Lower(Slice(last, n)))
        b == CharSet(Lower(Slice(new, n)))
    IN  /\ a \cup b # {}
        /\ 100 * Cardinality(a \cap b) >= ThresholdPercent * Cardinality(a \cup b)

\* The same with each prefix stripped of leading and trailing whitespace
\* before its character set is taken.
StrippedPrefixJaccardAtLeastThreshold(last, new) ==
    LET n == Min(PrefixLength, Min(Len(last), Len(new)))
        a == CharSet(Strip(Lower(Slice(last, n))))
        b == CharSet(Strip(Lower(Slice(new, n))))
    IN  /\ a # {} /\ b # {}
        /\ 100 * Cardinality(a \cap b) >= ThresholdPercent * Cardinality(a \cup b)

\* A turn event on existing live state replaces the last turn when Similar
\* holds of the last and the new text and the speakers are equal, and appends
\* the new turn otherwise.
ReplacesIffSameSpeakerAnd(Similar(_, _)) ==
    (n_turns' = n_turns + 1 /\ HasLiveCall(live_call_cache, ev'.call_id)) =>
        LET c == ev'.call_id
            old == live_call_cache[c].conversation
            new == live_call_cache'[c].conversation
            turn == Last(new)
        IN  IF /\ Last(old).speaker_type = turn.speaker_type
               /\ Similar(Last(old).speech, turn.speech)
            THEN new = [old EXCEPT ![Len(old)] = turn]
            ELSE new = Append(old, turn)

\* C10, as stated: the prefixes are compared as they are cut.
C10_ReplaceIffSimilarUnstripped ==
    [][ReplacesIffSameSpeakerAnd(PrefixJaccardAtLeastThreshold)]_vars

\* C10, amended: the prefixes are stripped before they are compared.
C10_ReplaceIffSimilarStripped ==
    [][ReplacesIffSameSpeakerAnd(StrippedPrefixJaccardAtLeastThreshold)]_vars

\* "abc de" replaced "abcd": the cut prefix "abc " is stripped to "abc".
C10_Witness ==
    /\ n_turns = 2
    /\ HasLiveCall(live_call_cache, "c1")
    /\ live_call_cache["c1"].conversation
          = <<ConversationTurn("AGENT", TextAbcSpaceDe)>>
    /\ Len(live_call_queue.items) = 2
    /\ live_call_queue.items[1].live_call.conversation
          = <<ConversationTurn("AGENT", TextAbcd)>>

(***************************************************************************)
(* Properties of the query caches.                                         *)
(***************************************************************************)
GetOps == {"get_trend_data", "get_dashboard_summary", "get_bulk_insights",
           "get_chart_calls"}

\* The pool a get operation works on.
PoolOf(op) ==
    CASE op = "get_trend_data" -> trend_cache
      [] op = "get_dashboard_summary" -> dashboard_cache
      [] op = "get_bulk_insights" -> bulk_insights_cache
      [] op = "get_chart_calls" -> chart_calls_cache

TenantPools(op) ==
    CASE op = "invalidate_trend_cache" -> {trend_cache}
      [] op = "invalidate_dashboard_cache" -> {dashboard_cache}
      [] op = "invalidate_chart_calls_cache" -> {chart_calls_cache}
      [] op = "analyze_and_store_insights" -> {trend_cache, dashboard_cache, chart_calls_cache}
      [] OTHER -> {}

\* The call has run to its end: an analysis that raised did not.
Completed(r) == r.op = "analyze_and_store_insights" => r.value # NoneValue

\* C2: right after a tenant-scoped invalidation for gym g, or a successful
\* analyze_and_store_insights for a call of gym g, the trend, dashboard and
\* chart pools it covers hold no entry whose key was generated for gym g.
C2_TenantInvalidationRemovesEntries ==
    (ret.gym_id # "None" /\ Completed(ret))
        => \A cache \in TenantPools(ret.op) :
                \A key \in DOMAIN cache : ~KeyOfGym(key, ret.gym_id)

\* The value of the part "name:value" of the key string, "None" if there is none.
KeyPart(key, name) ==
    LET at == {i \in 1..Len(key.md5_of) :
                    Len(key.md5_of[i]) = 2 /\ key.md5_of[i][1] = name}
    IN  IF at = {} THEN "None" ELSE key.md5_of[CHOOSE i \in at : TRUE][2]

AllValues == {NoneValue} \cup {Data(n) : n \in 0..MaxWrites}

\* C11: get_chart_calls with start_date null, end_date null or limit > 200
\* leaves every pool unchanged and returns what its one call of fetch_func
\* returned; and a key enters the chart pool only with both dates set and a
\* limit of at most 200.
C11_ChartPoolOnlyForChartQueries ==
    [][/\ \A gym_id \in SingleGym, q \in ChartQueries, data \in AllValues :
            (/\ q[1] = "None" \/ q[2] = "None" \/ q[3] > 200
             /\ ret'.op = "get_chart_calls"
             /\ get_chart_calls(gym_id, q[1], q[2], q[3], data))
                => (/\ UNCHANGED poolVars
                    /\ ret'.fetched
                    /\ ret'.value = data)
       /\ \A key \in DOMAIN chart_calls_cache' \ DOMAIN chart_calls_cache :
            /\ KeyPart(key, "start_date") # "None"
            /\ KeyPart(key, "end_date") # "None"
            /\ KeyPart(key, "limit") \in {ToString(l) : l \in 0..200}]_vars

\* An open-ended request was answered from the database although the chart
\* pool holds an entry with another value.
C11_Witness ==
    /\ ret.op = "get_chart_calls"
    /\ ret.key = NoKey
    /\ ret.fetched
    /\ \E key \in DOMAIN chart_calls_cache : chart_calls_cache[key] # ret.value

(***************************************************************************)
(* Properties of get_trend_data_smart.                                     *)
(***************************************************************************)
\* C12: a call of get_trend_data_smart fetches the range of the current day,
\* every point it returns that is dated today comes from a fetch of that
\* call and not from the pool, and no entry of the trend pool holds a point
\* dated with the day on which the entry was stored.
C12_TodayIsFetchedFresh ==
    /\ ret.op = "get_trend_data_smart"
        => /\ \E i \in 1..Len(ret.value.fetches) : ret.value.fetches[i] = "today"
           /\ \A i \in 1..Len(ret.value.points) :
                ret.value.points[i].date = now \div DaySeconds
                    => ret.value.points[i].origin = "fetch"
    /\ \A key \in DOMAIN trend_cache :
            \A i \in 1..Len(trend_cache[key].points) :
                trend_cache[key].points[i].date # stored_at.trend[key] \div DaySeconds

\* A call after midnight was served from the entry stored before midnight
\* and from a fetch of the new day.
C12_Witness ==
    /\ ret.op = "get_trend_data_smart"
    /\ ret.value.fetches = <<"today">>
    /\ \E i \in 1..Len(ret.value.points) : ret.value.points[i].origin = "pool"
    /\ \E i \in 1..Len(ret.value.points) :
            /\ ret.value.points[i].origin = "fetch"
            /\ ret.value.points[i].date = now \div DaySeconds
    /\ stored_at.trend[ret.key] \div DaySeconds # now \div DaySeconds

(***************************************************************************)
(* Properties of the pools against the clock.                              *)
(***************************************************************************)
\* The pool of a get operation, by name, and the TTLs as the claim gives them.
PoolName(op) ==
    CASE op = "get_trend_data" -> "trend"
      [] op = "get_dashboard_summary" -> "dashboard"
      [] op = "get_bulk_insights" -> "bulk"
      [] op = "get_chart_calls" -> "chart"

StatedTTL == [trend |-> 300, dashboard |-> 180, bulk |-> 600, chart |-> 300, live |-> 3600]

\* C13: a get returns a stored value only before its store time plus the
\* TTL of the pool (trend 300 s, dashboard 180 s, bulk 600 s, chart 300 s,
\* live call 3600 s); so data computed before an insight write is returned
\* for less than one TTL after the write, and a get that finds its entry
\* expired calls fetch_func.
C13_StalenessBoundedByTtl ==
    [][/\ \A name \in DOMAIN stored_at' : \A k \in DOMAIN stored_at'[name] :
            now' < stored_at'[name][k] + StatedTTL[name]
       /\ (ret'.op \in GetOps /\ ~ret'.fetched)
            => /\ ret'.key \in DOMAIN PoolOf(ret'.op)
               /\ ret'.value = PoolOf(ret'.op)[ret'.key]
               /\ now' < stored_at[PoolName(ret'.op)][ret'.key] + StatedTTL[PoolName(ret'.op)]
       /\ (ret'.op \in GetOps /\ ret'.value.version < db'["c1"])
            => now' < written_at' + StatedTTL[PoolName(ret'.op)]
       /\ (ret'.op \in GetOps /\ ret'.key \notin DOMAIN PoolOf(ret'.op))
            => ret'.fetched
       /\ (ret'.op = "get_live_call" /\ ret'.value = LiveValue)
            => /\ HasLiveCall(live_call_cache, "c1")
               /\ now' < stored_at.live["c1"] + StatedTTL.live]_vars

\* A read in the last minute of the TTL returned data of before the write.
C13_Witness ==
    /\ ret.op = "get_trend_data"
    /\ ~ret.fetched
    /\ ret.value.version < db["c1"]
    /\ now = stored_at.trend[ret.key] + TrendTTL - 60

(***************************************************************************)
(* Properties of the pools side by side.                                   *)
(***************************************************************************)
\* The pool an operation targets.
TargetOf(op) ==
    CASE op \in {"get_trend_data", "invalidate_trend_cache"} -> "trend"
      [] op \in {"get_dashboard_summary", "invalidate_dashboard_cache"} -> "dashboard"
      [] op \in {"get_bulk_insights", "invalidate_bulk_insights_cache"} -> "bulk"
      [] op \in {"get_chart_calls", "invalidate_chart_calls_cache"} -> "chart"
      [] op \in {"get_live_call", "set_live_call", "invalidate_live_call_cache"} -> "live"
      [] OTHER -> "all"

\* Every entry of `before` whose key was generated for another gym is in `after`.
KeepsOtherGyms(before, after, gym_id) ==
    \A key \in DOMAIN before :
        ~KeyOfGym(key, gym_id) => (key \in DOMAIN after /\ after[key] = before[key])

\* C14: an operation on one pool leaves the four other pools as they were,
\* and an invalidation for a gym removes no entry generated for another gym.
C14_PoolsAreIndependent ==
    [][LET target == TargetOf(ret'.op)
       IN  /\ target \notin {"trend", "all"} => trend_cache' = trend_cache
           /\ target \notin {"dashboard", "all"} => dashboard_cache' = dashboard_cache
           /\ target \notin {"bulk", "all"} => bulk_insights_cache' = bulk_insights_cache
           /\ target \notin {"chart", "all"} => chart_calls_cache' = chart_calls_cache
           /\ target \notin {"live", "all"} => live_call_cache' = live_call_cache
           /\ (ret'.op \in {"invalidate_trend_cache", "invalidate_dashboard_cache",
                            "invalidate_chart_calls_cache"} /\ ret'.gym_id # "None")
                => /\ KeepsOtherGyms(trend_cache, trend_cache', ret'.gym_id)
                   /\ KeepsOtherGyms(dashboard_cache, dashboard_cache', ret'.gym_id)
                   /\ KeepsOtherGyms(chart_calls_cache, chart_calls_cache', ret'.gym_id)]_vars

\* An invalidation for gym g1 ran while every pool holds an entry and the
\* dashboard pool holds one of gym g2.
C14_Witness ==
    /\ ret.op = "invalidate_dashboard_cache"
    /\ ret.gym_id = "g1"
    /\ \E key \in DOMAIN dashboard_cache : KeyOfGym(key, "g2")
    /\ DOMAIN trend_cache # {}
    /\ DOMAIN bulk_insights_cache # {}
    /\ DOMAIN chart_calls_cache # {}
    /\ HasLiveCall(live_call_cache, "c1")

\* The character sequences of the parameter names of _generate_cache_key.
GymIdName == <<"g", "y", "m", "_", "i", "d">>

DaysName == <<"d", "a", "y", "s">>

PeriodName == <<"p", "e", "r", "i", "o", "d">>

ThresholdName == <<"t", "h", "r", "e", "s", "h", "o", "l", "d">>

\* The name/value pairs of the arguments of a call that are not None.
NonNullPairs(call) ==
    LET named(name, arg) == IF Len(arg) = 1 THEN {<<name, arg[1]>>} ELSE {}
    IN  named(GymIdName, call.gym_id) \cup named(DaysName, call.days)
        \cup named(PeriodName, call.period) \cup named(ThresholdName, call.threshold)
        \cup {<<call.kwargs[i].name, call.kwargs[i].value[1]>> :
                 i \in {j \in 1..Len(call.kwargs) : Len(call.kwargs[j].value) = 1}}

SameParameters(a, b) ==
    a.cache_type = b.cache_type /\ NonNullPairs(a) = NonNullPairs(b)

\* C15, first half: two calls with the same operation name and the same
\* non-None name/value pairs, in any keyword order and with any None
\* arguments added, return the same key.
C15_SameParametersSameKey ==
    (ret.op = "_generate_cache_key" /\ Len(ret.calls) = 2)
        => (SameParameters(ret.calls[1], ret.calls[2]) => ret.keys[1] = ret.keys[2])

\* C15: the key is a function of the operation name and the set of non-None
\* name/value pairs, and two calls that differ in the operation name or in
\* that set hash different key strings.
C15_KeyDeterminedByNonNullParameters ==
    (ret.op = "_generate_cache_key" /\ Len(ret.calls) = 2)
        => /\ SameParameters(ret.calls[1], ret.calls[2]) => ret.keys[1] = ret.keys[2]
           /\ ~SameParameters(ret.calls[1], ret.calls[2])
                  => ret.key_strings[1] # ret.key_strings[2]

InUnit(f) == FracLe(Frac(0, 1), f) /\ FracLe(f, Frac(1, 1))

\* C16: the score calculate_anomaly_score returns is in [0,1], and so is
\* the score of every factor that entered the average.
C16_ScoreAndFactorsInUnitInterval ==
    ret.op = "calculate_anomaly_score"
        => /\ InUnit(ret.score)
           /\ \A i \in 1..Len(ret.factors) : InUnit(ret.factors[i].score)

\* A call in which all six factors were computed, one of them above 0.9.
C16_Witness ==
    /\ ret.op = "calculate_anomaly_score"
    /\ Len(ret.factors) = 6
    /\ \E i \in 1..Len(ret.factors) : FracLe(Frac(9, 10), ret.factors[i].score)
    /\ ret.score.num > 0

\* The weight the factor of a name has in the average, in tenths.
StatedWeight(name) ==
    CASE name = "rating" -> 2
      [] name = "sentiment_conflict" -> 2
      [] name = "pattern_deviation" -> 1
      [] name = "confidence" -> 1
      [] name = "churn_score" -> 2
      [] name = "revenue_score" -> 2

\* The average of the factor scores under the stated weights, renormalised
\* over the factors present.
StatedAverage(factors) ==
    FracDiv(FracSum([i \in 1..Len(factors) |->
                        FracMul(factors[i].score, Frac(StatedWeight(factors[i].name), 1))]),
            Frac(SumSeq([i \in 1..Len(factors) |-> StatedWeight(factors[i].name)]), 1))

\* No input of a factor is there: no rating, no sentiment, no similar call,
\* and for confidence, churn and revenue no value or no historical average.
NothingComputable(extracted_insights, rag_context) ==
    LET stats == rag_context.historical_stats
    IN  /\ extracted_insights.gym_rating = <<>>
        /\ extracted_insights.sentiment = <<>>
        /\ rag_context.similar_calls = <<>>
        /\ extracted_insights.confidence = <<>> \/ stats.avg_confidence = <<>>
        /\ extracted_insights.churn_score = <<>> \/ stats.avg_churn_score = <<>>
        /\ extracted_insights.revenue_interest_score = <<>>
               \/ stats.avg_revenue_interest_score = <<>>

\* C17: the score is exactly 0 when no factor is computable, and otherwise
\* the average of the computed factors with weights 0.2 (rating), 0.2
\* (sentiment conflict), 0.1 (pattern deviation), 0.1 (confidence), 0.2
\* (churn), 0.2 (revenue), renormalised over the factors present.
C17_ZeroOrRenormalisedWeightedAverage ==
    ret.op = "calculate_anomaly_score"
        => /\ NothingComputable(ret.extracted_insights, ret.rag_context)
                  => ret.factors = <<>>
           /\ ret.factors = <<>> => ret.score = Frac(0, 1)
           /\ ret.factors # <<>> => ret.score = StatedAverage(ret.factors)
           /\ \A i, j \in 1..Len(ret.factors) :
                  i # j => ret.factors[i].name # ret.factors[j].name

\* A call in which the pattern-deviation factor and the churn factor were
\* computed and the rating and confidence factors were not.
C17_Witness ==
    /\ ret.op = "calculate_anomaly_score"
    /\ {ret.factors[i].name : i \in 1..Len(ret.factors)}
           = {"pattern_deviation", "churn_score"}
    /\ ret.score.num > 0
    /\ ret.score.num < ret.score.den

\* The sentiment a rating lets one expect: positive from 8, negative up to
\* 4, neutral between.
ExpectedFor(rating) ==
    IF rating >= 8 THEN "positive" ELSE IF rating <= 4 THEN "negative" ELSE "neutral"

\* The similar call has a rating and a sentiment that disagree in that way.
ShowsConflict(c) ==
    /\ Len(c.rating) = 1
    /\ Len(c.sentiment) = 1
    /\ c.sentiment[1] # ExpectedFor(c.rating[1])

\* The factor as stated, for the share conflicts / total of similar calls
\* that show the conflict.
StatedConflictFactor(rating, sentiment, similar_calls) ==
    LET conflicts == Len(SelectSeq(similar_calls, ShowsConflict))
        total == Len(similar_calls)
    IN  IF sentiment = ExpectedFor(rating) THEN Frac(0, 1)
        ELSE IF total = 0 THEN Frac(5, 10)
        ELSE IF 5 * conflicts < total THEN Frac(7, 10)
        ELSE IF 2 * conflicts < total THEN Frac(4, 10)
        ELSE Frac(2, 10)

\* C18: for a rating and a sentiment that are not None the factor is 0.0
\* when the sentiment is the expected one, 0.5 when it is not and there is
\* no similar call, and otherwise 0.7, 0.4 or 0.2 as fewer than 20%, fewer
\* than 50% or at least 50% of the similar calls show the conflict; so it is
\* 0.2 when every similar call has the rating and sentiment of the record.
C18_ConflictFactorFollowsNeighbourShare ==
    (ret.op = "_calculate_sentiment_conflict" /\ ret.rating # <<>> /\ ret.sentiment # <<>>)
        => /\ ret.factor = <<StatedConflictFactor(ret.rating[1], ret.sentiment[1],
                                                  ret.similar_calls)>>
           /\ ( /\ ret.sentiment[1] # ExpectedFor(ret.rating[1])
                /\ ret.similar_calls # <<>>
                /\ \A i \in 1..Len(ret.similar_calls) :
                       /\ ret.similar_calls[i].rating = ret.rating
                       /\ ret.similar_calls[i].sentiment = ret.sentiment )
                  => ret.factor = <<Frac(2, 10)>>

\* C18 where it holds: the expected sentiment, the factors 0.0 and 0.5, and
\* the thresholds, with the share counted as the code counts it (a similar
\* call rated 5 to 7 with a positive sentiment shows no conflict).
C18_ConflictFactorByCodeShare ==
    (ret.op = "_calculate_sentiment_conflict" /\ ret.rating # <<>> /\ ret.sentiment # <<>>)
        => LET counted(c) == ShowsConflict(c)
                                 /\ ~(c.rating[1] \in 5..7 /\ c.sentiment[1] = "positive")
               conflicts == Len(SelectSeq(ret.similar_calls, counted))
               total == Len(ret.similar_calls)
           IN  ret.factor =
                   <<IF ret.sentiment[1] = ExpectedFor(ret.rating[1]) THEN Frac(0, 1)
                     ELSE IF total = 0 THEN Frac(5, 10)
                     ELSE IF 5 * conflicts < total THEN Frac(7, 10)
                     ELSE IF 2 * conflicts < total THEN Frac(4, 10)
                     ELSE Frac(2, 10)>>

\* The context of the same call had no retrieval step failed.
UnfailedContext ==
    retrieve_context(ret.calls, ret.results, ret.rows, ret.gym_id, ret.supplied,
                     ret.generated, {})

\* The insights of the gym with a confidence of at least 0.3.
GymInsights == {r \in ret.rows : /\ r.gym_id = ret.gym_id
                                 /\ Len(r.insight) = 1
                                 /\ r.insight[1].confidence >= 3}

\* The rows that can be a high-quality example.
GymExamples == {r \in ret.rows : /\ r.gym_id = ret.gym_id
                                 /\ Len(r.insight) = 1
                                 /\ r.insight[1].confidence >= 8
                                 /\ Len(r.transcript_embedding) = 1}

\* The examples are the best by confidence, in the order of confidence, and
\* carry no similarity.
RankedByConfidenceAlone(examples) ==
    /\ Len(examples) = Min(ExamplesLimit, Cardinality(GymExamples))
    /\ \A i \in 1..Len(examples) : "similarity" \notin DOMAIN examples[i]
    /\ \A i, j \in 1..Len(examples) :
           i < j => examples[j].confidence <= examples[i].confidence
    /\ \A r \in GymExamples :
           (\A i \in 1..Len(examples) : examples[i].call_id # r.call_id)
               => \A i \in 1..Len(examples) :
                      r.insight[1].confidence <= examples[i].confidence

\* C19: retrieve_context returns a context whatever fails; without an
\* embedding (none supplied, none generated) similar_calls is empty, the
\* statistics are those of the gym's insights and the examples are ranked by
\* confidence alone; a step that fails yields an empty result and a step
\* that does not fail yields what it yields when no step fails.
C19_ContextDegradesStepByStep ==
    ret.op = "retrieve_context"
        => /\ ~ret.context.raised
           /\ (ret.supplied = <<>> /\ ret.generated = <<>>)
                  => /\ ret.context.similar_calls = <<>>
                     /\ ("stats" \notin ret.fails /\ GymInsights # {})
                            => /\ Len(ret.context.historical_stats) = 1
                               /\ ret.context.historical_stats[1].total_calls
                                      = Cardinality(GymInsights)
                     /\ "examples" \notin ret.fails
                            => RankedByConfidenceAlone(ret.context.high_quality_examples)
           /\ "similar" \in ret.fails => ret.context.similar_calls = <<>>
           /\ "stats" \in ret.fails => ret.context.historical_stats = <<>>
           /\ "examples" \in ret.fails => ret.context.high_quality_examples = <<>>
           /\ "similar" \notin ret.fails
                  => ret.context.similar_calls = UnfailedContext.similar_calls
           /\ "stats" \notin ret.fails
                  => ret.context.historical_stats = UnfailedContext.historical_stats
           /\ "examples" \notin ret.fails
                  => ret.context.high_quality_examples
                         = UnfailedContext.high_quality_examples

\* No embedding was supplied or generated and the statistics step failed:
\* the context has no similar calls, no statistics, and two or more examples.
C19_Witness ==
    /\ ret.op = "retrieve_context"
    /\ ret.supplied = <<>>
    /\ ret.generated = <<>>
    /\ ret.fails = {"stats"}
    /\ GymInsights # {}
    /\ ret.context.similar_calls = <<>>
    /\ ret.context.historical_stats = <<>>
    /\ Len(ret.context.high_quality_examples) >= 2

\* The row of a call id.
RowOf(call_id) == CHOOSE r \in ret.rows : r.call_id = call_id

\* The embedding the vector search used.
QueryEmbedding == UsedEmbedding(<<ret.supplied, ret.generated>>)[1]

\* The similar calls are at most top_k rows of the gym with an embedding
\* within the distance bound and an insight, nearest first, and they are
\* the rows with an insight among the top_k nearest rows.
SimilarCallsAreNearestWithInsight(similar_calls) ==
    /\ Len(similar_calls) <= ret.top_k
    /\ \A i \in 1..Len(similar_calls) :
           LET r == RowOf(similar_calls[i].call_id)
           IN  /\ r.gym_id = ret.gym_id
               /\ Len(r.transcript_embedding) = 1
               /\ DistanceBelowMax(r.transcript_embedding[1], QueryEmbedding)
               /\ Len(r.insight) = 1
    /\ \A i, j \in 1..Len(similar_calls) :
           i < j => NotFarther(RowOf(similar_calls[i].call_id).transcript_embedding[1],
                               RowOf(similar_calls[j].call_id).transcript_embedding[1],
                               QueryEmbedding)
    /\ (similar_calls # <<>>)
           => /\ Len(ret.calls)
                     = Min(ret.top_k,
                           Cardinality(SimilarMatches(ret.rows, QueryEmbedding, ret.gym_id)))
              /\ [i \in 1..Len(similar_calls) |-> similar_calls[i].call_id]
                     = LET kept == SelectSeq(ret.calls, LAMBDA c : Len(c.insight) = 1)
                       IN  [i \in 1..Len(kept) |-> kept[i].call_id]

\* C20: _retrieve_similar_calls returns at most top_k records of the gym
\* with an embedding at a distance below 0.85 and an insight, in ascending
\* order of distance and non-increasing order of similarity_score, each
\* similarity_score in [0,1]; the cap at top_k precedes the dropping of the
\* records without an insight.
C20_SimilarCallsCappedOrderedScored ==
    ret.op = "retrieve_context"
        => /\ SimilarCallsAreNearestWithInsight(ret.context.similar_calls)
           /\ \A i, j \in 1..Len(ret.context.similar_calls) :
                  i < j => FracLe(ret.context.similar_calls[j].similarity_score,
                                  ret.context.similar_calls[i].similarity_score)
           /\ \A i \in 1..Len(ret.context.similar_calls) :
                  InUnit(ret.context.similar_calls[i].similarity_score)

\* C20 without the range of the scores: which records are returned, and in
\* which order.
C20_SimilarCallsCappedOrdered ==
    ret.op = "retrieve_context"
        => /\ SimilarCallsAreNearestWithInsight(ret.context.similar_calls)
           /\ \A i, j \in 1..Len(ret.context.similar_calls) :
                  i < j => FracLe(ret.context.similar_calls[j].similarity_score,
                                  ret.context.similar_calls[i].similarity_score)

\* The score of the factor of a name: None when the factor did not enter
\* the average.
FactorScore(factors, name) ==
    LET named == SelectSeq(factors, LAMBDA f : f.name = name)
    IN  [i \in 1..Len(named) |-> named[i].score]

\* A Z-score factor as stated: from the similar-calls sample alone when it
\* has enough values (unavailable when its deviation is 0), and from the
\* tenant-wide statistics otherwise.
StatedZScoreFactor(value, samples, enough, tenant_wide) ==
    LET n == Len(samples)
        sum == SumSeq(samples)
        variance == n * SumSeq(SquaresOf(samples)) - sum * sum
        distance == n * value[1] - sum
    IN  IF value = <<>> THEN <<>>
        ELSE IF n >= enough
        THEN IF variance > 0
             THEN <<SigmoidOfZ(distance * distance, variance, 27)>>
             ELSE <<>>
        ELSE tenant_wide

\* The rating factor from the tenant-wide mean and deviation (threshold 2.0).
TenantRatingFactor(rating, stats) ==
    IF rating # <<>> /\ stats.avg_rating # <<>> /\ stats.std_rating # <<>>
           /\ stats.std_rating[1] > 0
    THEN <<SigmoidOfZ((10 * rating[1] - stats.avg_rating[1])
                          * (10 * rating[1] - stats.avg_rating[1]),
                      stats.std_rating[1] * stats.std_rating[1], 40)>>
    ELSE <<>>

\* The factor from the tenant-wide mean where no deviation is kept: the
\* distance from the mean over 0.5, capped at 1, when it is above 0.4.
TenantDeviationFactor(value, average) ==
    IF value # <<>> /\ average # <<>> /\ Abs(value[1] - average[1]) > 4
    THEN <<IF Abs(value[1] - average[1]) >= 5
           THEN Frac(1, 1)
           ELSE Frac(Abs(value[1] - average[1]), 5)>>
    ELSE <<>>

\* The four Z-score factors of a call, with the sample of the similar calls
\* selected when selected(values, enough) holds.
ZScoreFactorsBy(selected(_, _)) ==
    LET insights == ret.extracted_insights
        stats == ret.rag_context.historical_stats
        similar == ret.rag_context.similar_calls
        factor(value, field, enough, tenant_wide) ==
            LET samples == FieldValues(similar, field)
            IN  IF selected(samples, enough)
                THEN StatedZScoreFactor(value, samples, enough, tenant_wide)
                ELSE IF value = <<>> THEN <<>> ELSE tenant_wide
    IN  /\ FactorScore(ret.factors, "rating")
               = factor(insights.gym_rating, "rating", 3,
                        TenantRatingFactor(insights.gym_rating, stats))
        /\ FactorScore(ret.factors, "confidence")
               = factor(insights.confidence, "confidence", 2,
                        TenantDeviationFactor(insights.confidence, stats.avg_confidence))
        /\ FactorScore(ret.factors, "churn_score")
               = factor(insights.churn_score, "churn_score", 3,
                        TenantDeviationFactor(insights.churn_score, stats.avg_churn_score))
        /\ FactorScore(ret.factors, "revenue_score")
               = factor(insights.revenue_interest_score, "revenue_interest_score", 3,
                        TenantDeviationFactor(insights.revenue_interest_score,
                                              stats.avg_revenue_interest_score))

\* C21: each Z-score factor (rating, confidence, churn, revenue) is computed
\* from the similar-calls sample when that sample has at least 3 (confidence:
\* 2) non-null values and from the tenant-wide statistics otherwise, and it
\* is unavailable when the deviation of the selected sample is not above 0:
\* it is then not computed from the other sample.
C21_ZScoreFactorsUseSelectedSample ==
    ret.op = "calculate_anomaly_score"
        => ZScoreFactorsBy(LAMBDA samples, enough : TRUE)

\* C21 as the code selects: the similar-calls sample when it has enough
\* values and a deviation above 0, the tenant-wide statistics otherwise.
\* Mean and deviation always come from one sample.
C21_ZScoreFactorsFallBackOnZeroDeviation ==
    ret.op = "calculate_anomaly_score"
        => ZScoreFactorsBy(LAMBDA samples, enough :
                               Len(samples) < enough \/ ScaledVariance(samples) > 0)

\* C22: COMPLETED is terminal.  A conversation-turn webhook for a call whose
\* completion webhook has been processed creates no live state for the call
\* and puts no analysis request on the queue.
C22_CompletedIsTerminal ==
    [][\A c \in Calls :
          (completed[c] /\ ev'.kind = "turn" /\ ev'.call_id = c)
              => /\ ~HasLiveCall(live_call_cache', c)
                 /\ n_enqueued' = n_enqueued
                 /\ live_call_queue'.items = live_call_queue.items]_vars

(***************************************************************************)
(* Properties of analyze_and_store_insights.                               *)
(***************************************************************************)
\* The position of a step among the steps taken, 0 when it was not taken.
StepAt(step) ==
    IF \E i \in 1..Len(ret.steps) : ret.steps[i] = step
    THEN CHOOSE i \in 1..Len(ret.steps) : ret.steps[i] = step
    ELSE 0

\* The kinds of the lines of the prompt text handed to extract_insights.
PromptHeaders ==
    {ret.prompt[1][i].of : i \in {j \in 1..Len(ret.prompt[1]) :
                                     ret.prompt[1][j].kind = "header"}}

\* C23: when retrieve_context raises, or no embedding is supplied and the
\* embedding provider fails, analyze_and_store_insights still calls
\* extract_insights, with an empty text in the first case and a text without
\* similar calls in the second, and, the extraction and the commit
\* succeeding, stores the insight and returns.
C23_RagFailureDoesNotAbortExtraction ==
    (/\ ret.op = "analyze_and_store_insights"
     /\ ret.gym_id # "None"
     /\ ret.rag_raises \/ (ret.supplied = <<>> /\ ret.generated = <<>>))
        => /\ StepAt("retrieve_context") > 0
           /\ StepAt("extract_insights") > StepAt("retrieve_context")
           /\ Len(ret.prompt) = 1
           /\ ret.rag_raises => ret.prompt[1] = <<>>
           /\ ~ret.rag_raises => "SIMILAR PAST CALLS:" \notin PromptHeaders
           /\ (ret.extracted /\ ret.committed) => (ret.stored /\ ~ret.raised)
           /\ ret.raised => (~ret.extracted \/ ~ret.committed)

\* retrieve_context raised for a call of gym g1; the insight was stored and
\* the bulk pool, which held an entry, was cleared.
C23_Witness ==
    /\ ret.op = "analyze_and_store_insights"
    /\ ret.gym_id = "g1"
    /\ ret.rag_raises
    /\ ret.prompt = <<<<>>>>
    /\ ret.stored
    /\ ~ret.raised
    /\ db["c1"] = 1
    /\ bulk_insights_cache = EmptyCache
    /\ trend_cache # EmptyCache

\* C29: when the commit fails the call rolls back and raises, and no pool
\* and no row changes; an invalidation runs only after a commit that
\* succeeded, and after a commit that succeeded all four run.
C29_CommitFailureTouchesNoPool ==
    [][(ret'.op = "analyze_and_store_insights" /\ StepAt("commit")' > 0) =>
          /\ ~ret'.committed
                => /\ ret'.raised
                   /\ ~ret'.stored
                   /\ ret'.steps[StepAt("commit")' + 1] = "rollback"
                   /\ ret'.steps[StepAt("commit")' + 2] = "raise"
                   /\ poolVars' = poolVars
                   /\ db' = db
          /\ \A i \in 1..Len(Invalidations) :
                /\ StepAt(Invalidations[i])' > 0 <=> ret'.committed
                /\ ret'.committed => StepAt(Invalidations[i])' > StepAt("commit")'
          /\ ret'.committed
                => /\ bulk_insights_cache' = EmptyCache
                   /\ ~ret'.raised]_vars

\* The commit failed while the four pools held an entry each: the call
\* raised and the entries are still there.
C29_Witness ==
    /\ ret.op = "analyze_and_store_insights"
    /\ ret.extracted
    /\ ~ret.committed
    /\ ret.raised
    /\ trend_cache # EmptyCache
    /\ dashboard_cache # EmptyCache
    /\ chart_calls_cache # EmptyCache
    /\ bulk_insights_cache # EmptyCache

\* C24: whatever constructions of InsightService and calls of
\* queue_live_call_analysis run, one processor task exists from the creation
\* of the queue on and none before, it never ends, and the queue is never
\* replaced: a step on the queue that exists leaves its items, puts one item
\* behind them or takes the oldest, and every item enqueued is on that queue.
C24_OneQueueOneProcessor ==
    [][/\ Len(tasks') = (IF live_call_queue'.exists THEN 1 ELSE 0)
       /\ Cardinality({w \in 1..Len(tasks') : tasks'[w].pc # "done"}) = Len(tasks')
       /\ live_call_queue.exists
             => /\ live_call_queue'.exists
                /\ Len(tasks') = Len(tasks)
                /\ LET old == live_call_queue.items
                       new == live_call_queue'.items
                   IN  \/ new = old
                       \/ Len(new) = Len(old) + 1 /\ SubSeq(new, 1, Len(old)) = old
                       \/ old # <<>> /\ new = Tail(old)
       /\ n_enqueued' > n_enqueued
             => /\ live_call_queue'.exists
                /\ Last(live_call_queue'.items).seq = n_enqueued']_vars

\* Turns of both calls wait on the queue of the one processor task, and the
\* completion webhook of c1 has been handled since.
C24_Witness ==
    /\ ev = Event("final", "c1", "handled")
    /\ Len(tasks) = 1
    /\ Len(live_call_queue.items) >= 2
    /\ {live_call_queue.items[i].call_id : i \in 1..Len(live_call_queue.items)} = Calls

\* C25: every live call in the cache has a non-empty conversation; a step
\* that keeps the live state of a call changes the length of its
\* conversation by 0 or by +1, only a turn event of that call changes it,
\* and no worker step does.
C25_ConversationNeverShrinks ==
    [][\A c \in Calls :
          HasLiveCall(live_call_cache', c)
              => /\ Len(live_call_cache'[c].conversation) >= 1
                 /\ HasLiveCall(live_call_cache, c)
                       => LET old == Len(live_call_cache[c].conversation)
                              new == Len(live_call_cache'[c].conversation)
                          IN  /\ new \in {old, old + 1}
                              /\ new # old => ev' = Event("turn", c, "ok")
                              /\ ev'.kind = "worker" => new = old]_vars

\* The second turn of c1 replaced the first, and the worker has stored an
\* analysis on the state since.
C25_Witness ==
    /\ ev = Event("worker", "c1", "store")
    /\ n_turns = 2
    /\ HasLiveCall(live_call_cache, "c1")
    /\ ~HasLiveCall(live_call_cache, "c2")
    /\ Len(live_call_cache["c1"].conversation) = 1
    /\ Len(deq_log) = 2

\* The four fields the worker writes.
ScoresOf(live_call) ==
    <<live_call.sentiment, live_call.churn_score, live_call.revenue_interest_score,
      live_call.confidence>>

\* C26: a turn event on existing live state leaves sentiment, churn_score,
\* revenue_interest_score and confidence of the stored state as they were,
\* and only a worker write changes them while the state exists.
C26_TurnKeepsScores ==
    [][\A c \in Calls :
          (HasLiveCall(live_call_cache, c) /\ HasLiveCall(live_call_cache', c))
              => /\ ev'.kind = "turn"
                       => ScoresOf(live_call_cache'[c]) = ScoresOf(live_call_cache[c])
                 /\ ScoresOf(live_call_cache'[c]) # ScoresOf(live_call_cache[c])
                       => ev' = Event("worker", c, "store")]_vars

\* A turn of c1 came after the worker had stored scores on c1's state: the
\* conversation has two turns and the scores are still there.
C26_Witness ==
    /\ ev = Event("turn", "c1", "ok")
    /\ HasLiveCall(live_call_cache, "c1")
    /\ Len(live_call_cache["c1"].conversation) = 2
    /\ live_call_cache["c1"].sentiment # "None"
    /\ live_call_cache["c1"].confidence # "None"

\* The payloads delivered while the worker runs.
LivePayloads == TurnPayloads(LiveTurnMessages) \cup StatusPayloads

\* C30: a webhook with completed = true that the endpoint handles without a
\* database error leaves no live state for its call, whatever its message
\* is, and no payload is handled both as a conversation turn and as a
\* completion.
C30_CompletedWebhookRemovesLiveState ==
    [][\A p \in LivePayloads :
          /\ (p.completed /\ bland_ai_webhook(p, TRUE))
                => ~HasLiveCall(live_call_cache', p.call_id)
          /\ ~(process_conversation_turn(p, TRUE) /\ process_final_webhook(p, TRUE))]_vars

\* C30 for the payloads whose message is no conversation turn, and the
\* exclusion of the two handlers for every payload.
C30_CompletedStatusWebhookRemovesLiveState ==
    [][\A p \in LivePayloads :
          /\ (p.completed /\ ~is_conversation_turn_webhook(p.message)
                  /\ bland_ai_webhook(p, TRUE))
                => ~HasLiveCall(live_call_cache', p.call_id)
          /\ ~(process_conversation_turn(p, TRUE) /\ process_final_webhook(p, TRUE))]_vars

\* The dates of the points a call of get_trend_data_smart returned.
ReturnedDates == [i \in 1..Len(ret.value.points) |-> ret.value.points[i].date]

\* The dates of a fetch of the whole window (days = 1) made now.
WindowDates == [i \in 1..2 |-> now \div DaySeconds - 2 + i]

\* C27: the database not changing, every call of get_trend_data_smart
\* returns the dated points of a direct fetch of the whole window made at the
\* time of the call, each date of the window once, also when the historical
\* entry it uses was stored before the last midnight.
C27_SmartTrendEqualsDirectFetch ==
    ret.op = "get_trend_data_smart" => ReturnedDates = WindowDates

\* C27 for the calls served on the day on which the historical entry was
\* stored.
C27_SmartTrendEqualsDirectFetchWithinDay ==
    (/\ ret.op = "get_trend_data_smart"
     /\ ret.key \in DOMAIN trend_cache
     /\ stored_at.trend[ret.key] \div DaySeconds = now \div DaySeconds)
        => ReturnedDates = WindowDates

\* The response get_calls gives to the filters of a request.
OwnResponse(request) ==
    get_calls(ListedCalls, request.status, request.sentiment, request.pain_point,
              request.opportunity, request.revenue_interest, request.limit,
              request.skip)

\* C28: a list_calls request served through the chart cache (start_date and
\* end_date set, skip = 0, limit <= 200) shares no entry with a request of
\* other status, sentiment, pain_point, opportunity or revenue_interest
\* filters: its response is the one computed with the filters of the request
\* itself.
C28_ChartResponseUsesOwnFilters ==
    (ret.op = "list_calls" /\ ServedThroughChartCache(ret.request))
        => ret.value = OwnResponse(ret.request)

\* C28 for the requests list_calls does not serve through the chart cache.
C28_DirectResponseUsesOwnFilters ==
    (ret.op = "list_calls" /\ ~ServedThroughChartCache(ret.request))
        => ret.value = OwnResponse(ret.request)

\* C28, the keys: two successive chart requests whose filters differ use
\* different entries.
C28_FilteredRequestsShareNoEntry ==
    [][(/\ ret.op = "list_calls"
        /\ ret'.op = "list_calls"
        /\ ServedThroughChartCache(ret.request)
        /\ ServedThroughChartCache(ret'.request)
        /\ \E f \in {"status", "sentiment", "pain_point", "opportunity",
                     "revenue_interest"} : ret.request[f] # ret'.request[f])
            => ret'.key # ret.key]_vars

====
